---------------------------- MODULE Spec2Model ----------------------------
(***************************************************************************)
(* Compatibility graph and sequence optimizer of rekordbox_creative.       *)
(*                                                                         *)
(* Units.  Every [0,1] float of the program is an integer number of        *)
(* thousandths (0.85 is 850).  Normalized weights are integer hundredths,  *)
(* so an aggregate compatibility score is an integer number of 1/100000    *)
(* (0.88 is 88000).  BPM ratios are compared by cross-multiplication.      *)
(***************************************************************************)
EXTENDS Integers, Sequences, FiniteSets, TLC

VARIABLES
    nodes,      \* TrackGraph._graph nodes: sequence of [id, track], insertion order
    edges,      \* TrackGraph._graph edges: set of Edge records
    op,         \* the last operation called and its arguments
    ret,        \* what the last operation returned (a list of edges) or raised
    nops,       \* number of operations called so far
    pf          \* sequence optimizer / batch driver: inputs, position and result

vars == <<nodes, edges, op, ret, nops, pf>>

(***************************************************************************)
(* Track records                                                           *)
(***************************************************************************)

\* the "track" attribute is missing from a node's data dict
NoTrack == [id |-> 0]

\* config: SuggestionConfig | None = None
NoConfig == [none |-> TRUE]

mkTrack(id, bpm, stab, key, conf, energy, groove, freq, mixin, mixout) ==
    [id |-> id, bpm |-> bpm, bpm_stability |-> stab, key |-> key,
     key_confidence |-> conf, energy |-> energy, groove_type |-> groove,
     frequency_weight |-> freq, mix_in_score |-> mixin, mix_out_score |-> mixout]

T1 == mkTrack(1, 128, 950, <<"8", "A">>, 850, 820, "four_on_floor", "bass_heavy", 500, 750)
T2 == mkTrack(2, 127, 950, <<"9", "A">>, 850, 700, "four_on_floor", "balanced", 750, 500)
T3 == mkTrack(3, 150, 700, <<"3", "B">>, 500, 300, "breakbeat", "bright", 250, 250)
T4 == mkTrack(4, 64, 950, <<"1", "2", "A">>, 850, 500, "half_time", "mid_focused", 500, 750)

Library == {T1, T2, T3, T4}

Ids == {t.id : t \in Library}

TrackOf(id) == CHOOSE t \in Library : t.id = id

(***************************************************************************)
(* Compatibility scorer (graph/scoring.py)                                 *)
(***************************************************************************)

Abs(x) == IF x < 0 THEN -x ELSE x
Min(a, b) == IF a <= b THEN a ELSE b
Max(a, b) == IF a >= b THEN a ELSE b

DEFAULT_WEIGHTS ==
    [harmonic |-> 30, bpm |-> 25, energy |-> 15,
     groove |-> 10, frequency |-> 10, mix_quality |-> 10]

DigitVal(c) ==
    CASE c = "0" -> 0 [] c = "1" -> 1 [] c = "2" -> 2 [] c = "3" -> 3
      [] c = "4" -> 4 [] c = "5" -> 5 [] c = "6" -> 6 [] c = "7" -> 7
      [] c = "8" -> 8 [] c = "9" -> 9

RECURSIVE ParseInt(_)
ParseInt(s) ==
    IF s = <<>> THEN 0
    ELSE 10 * ParseInt(SubSeq(s, 1, Len(s) - 1)) + DigitVal(s[Len(s)])

\* '8A' -> (8, 'A'), '12B' -> (12, 'B')
parse_camelot(key) ==
    [num |-> ParseInt(SubSeq(key, 1, Len(key) - 1)), mode |-> key[Len(key)]]

camelot_distance(a, b) == Min(Abs(a - b), 12 - Abs(a - b))

harmonic_base(key_a, key_b) ==
    LET a == parse_camelot(key_a)
        b == parse_camelot(key_b)
        dist == camelot_distance(a.num, b.num)
    IN  IF key_a = key_b THEN 1000
        ELSE IF a.num = b.num /\ a.mode # b.mode THEN 800
        ELSE IF a.mode = b.mode
             THEN (IF dist = 1 THEN 850 ELSE IF dist = 2 THEN 500 ELSE 100)
        ELSE IF dist = 1 THEN 400 ELSE 100

harmonic_score(key_a, key_b, conf_a, conf_b) ==
    LET score == harmonic_base(key_a, key_b)
        min_conf == Min(conf_a, conf_b)
    IN  IF min_conf < 700 THEN (score * min_conf) \div 1000 ELSE score

bpm_base(bpm_a, bpm_b) ==
    LET hi == Max(bpm_a, bpm_b)
        lo == Min(bpm_a, bpm_b)
    IN  IF 195 * lo <= 100 * hi /\ 100 * hi <= 205 * lo THEN 600
        ELSE IF 100 * Abs(hi - lo) <= 2 * lo THEN 1000
        ELSE IF 100 * Abs(hi - lo) <= 4 * lo THEN 800
        ELSE IF 100 * Abs(hi - lo) <= 6 * lo THEN 500
        ELSE IF 100 * Abs(hi - lo) <= 10 * lo THEN 200
        ELSE 50

bpm_score(bpm_a, bpm_b, stability_a, stability_b) ==
    LET score == bpm_base(bpm_a, bpm_b)
    IN  IF stability_a < 800 \/ stability_b < 800 THEN (score * 8) \div 10 ELSE score

\* mode = "smooth", the default used by compute_compatibility
energy_score(energy_a, energy_b) ==
    LET diff == Abs(energy_a - energy_b)
    IN  IF diff <= 100 THEN 1000
        ELSE IF diff <= 200 THEN 800
        ELSE IF diff <= 350 THEN 500
        ELSE 200

GrooveTypes ==
    {"four_on_floor", "breakbeat", "half_time", "complex", "syncopated", "straight"}

\* entries of the lookup table as <<key pair, value>>
GROOVE_COMPATIBILITY ==
    { <<<<g, g>>, 1000>> : g \in GrooveTypes } \cup
    { <<<<"four_on_floor", "straight">>, 700>>,
      <<<<"breakbeat", "syncopated">>, 700>>,
      <<<<"breakbeat", "complex">>, 600>>,
      <<<<"four_on_floor", "half_time">>, 500>>,
      <<<<"straight", "half_time">>, 500>>,
      <<<<"syncopated", "complex">>, 500>>,
      <<<<"four_on_floor", "breakbeat">>, 300>>,
      <<<<"four_on_floor", "syncopated">>, 300>>,
      <<<<"half_time", "breakbeat">>, 300>>,
      <<<<"straight", "syncopated">>, 300>>,
      <<<<"straight", "breakbeat">>, 300>>,
      <<<<"four_on_floor", "complex">>, 200>>,
      <<<<"half_time", "complex">>, 200>>,
      <<<<"half_time", "syncopated">>, 200>>,
      <<<<"straight", "complex">>, 200>> }

FrequencyWeights == {"bass_heavy", "bright", "mid_focused", "balanced"}

FREQUENCY_COMPATIBILITY ==
    { <<<<f, f>>, 1000>> : f \in FrequencyWeights } \cup
    { <<<<"balanced", "bass_heavy">>, 700>>,
      <<<<"balanced", "bright">>, 700>>,
      <<<<"balanced", "mid_focused">>, 700>>,
      <<<<"mid_focused", "bass_heavy">>, 500>>,
      <<<<"mid_focused", "bright">>, 500>>,
      <<<<"bass_heavy", "bright">>, 300>> }

\* dict.get(pair, default)
DictGet(table, pair, default) ==
    IF \E e \in table : e[1] = pair
    THEN (CHOOSE e \in table : e[1] = pair)[2]
    ELSE default

\* the lookup in the other order is missing
groove_score_one_way(groove_a, groove_b) ==
    DictGet(GROOVE_COMPATIBILITY, <<groove_a, groove_b>>, 300)

groove_score(groove_a, groove_b) ==
    DictGet(GROOVE_COMPATIBILITY, <<groove_a, groove_b>>,
            DictGet(GROOVE_COMPATIBILITY, <<groove_b, groove_a>>, 300))

frequency_score(freq_a, freq_b) ==
    DictGet(FREQUENCY_COMPATIBILITY, <<freq_a, freq_b>>,
            DictGet(FREQUENCY_COMPATIBILITY, <<freq_b, freq_a>>, 500))

mix_quality_score(mix_out_a, mix_in_b) == (mix_out_a + mix_in_b) \div 2

\* SuggestionConfig: the six raw weights
mkConfig(h, b, e, g, f, m) ==
    [harmonic_weight |-> h, bpm_weight |-> b, energy_weight |-> e,
     groove_weight |-> g, frequency_weight |-> f, mix_quality_weight |-> m]

normalized_weights(config) ==
    LET total == config.harmonic_weight + config.bpm_weight + config.energy_weight
                 + config.groove_weight + config.frequency_weight
                 + config.mix_quality_weight
    IN  [harmonic |-> (100 * config.harmonic_weight) \div total,
         bpm |-> (100 * config.bpm_weight) \div total,
         energy |-> (100 * config.energy_weight) \div total,
         groove |-> (100 * config.groove_weight) \div total,
         frequency |-> (100 * config.frequency_weight) \div total,
         mix_quality |-> (100 * config.mix_quality_weight) \div total]

EdgeScores(track_a, track_b) ==
    [harmonic |-> harmonic_score(track_a.key, track_b.key,
                                 track_a.key_confidence, track_b.key_confidence),
     bpm |-> bpm_score(track_a.bpm, track_b.bpm,
                       track_a.bpm_stability, track_b.bpm_stability),
     energy |-> energy_score(track_a.energy, track_b.energy),
     groove |-> groove_score(track_a.groove_type, track_b.groove_type),
     frequency |-> frequency_score(track_a.frequency_weight, track_b.frequency_weight),
     mix_quality |-> mix_quality_score(track_a.mix_out_score, track_b.mix_in_score)]

\* weights = config.normalized_weights() if config else DEFAULT_WEIGHTS
WeightsOf(config) ==
    IF config # NoConfig THEN normalized_weights(config) ELSE DEFAULT_WEIGHTS

\* the weighted sum of the six sub-scores
Aggregate(scores, weights) ==
    scores.harmonic * weights.harmonic
    + scores.bpm * weights.bpm
    + scores.energy * weights.energy
    + scores.groove * weights.groove
    + scores.frequency * weights.frequency
    + scores.mix_quality * weights.mix_quality

\* (aggregate, scores) for sub-scores already computed
Scored(scores, weights) ==
    [aggregate |-> Aggregate(scores, weights), scores |-> scores]

\* returns (aggregate, scores)
compute_compatibility(track_a, track_b, config) ==
    Scored(EdgeScores(track_a, track_b), WeightsOf(config))

(***************************************************************************)
(* Compatibility graph (graph/graph.py): a networkx DiGraph                *)
(***************************************************************************)

EmptyGraph == [nodes |-> <<>>, edges |-> {}]

mkEdge(source_id, target_id, score, scores, user) ==
    [source_id |-> source_id, target_id |-> target_id,
     compatibility_score |-> score, scores |-> scores, is_user_created |-> user]

\* a value returned, or the exception raised, by a call
Returned(v) == [exc |-> "none", value |-> v]
Raised(e) == [exc |-> e, value |-> <<>>]

NodeIds(g) == {g.nodes[i].id : i \in 1..Len(g.nodes)}

has_node(g, track_id) == track_id \in NodeIds(g)

has_edge(g, source_id, target_id) ==
    \E e \in g.edges : e.source_id = source_id /\ e.target_id = target_id

node_count(g) == Len(g.nodes)

edge_count(g) == Cardinality(g.edges)

\* nx.DiGraph.add_node(id, **attr): a new id is appended, a known id keeps
\* its position and has its attributes updated.  add_edge enters its
\* endpoints the same way with no attributes (track = NoTrack), which leaves
\* the data of a known node alone
nx_add_node(ns, id, track) ==
    IF \E i \in 1..Len(ns) : ns[i].id = id
    THEN [i \in 1..Len(ns) |->
            IF ns[i].id = id /\ track # NoTrack THEN [id |-> id, track |-> track]
            ELSE ns[i]]
    ELSE Append(ns, [id |-> id, track |-> track])

add_node(g, track) == [g EXCEPT !.nodes = nx_add_node(g.nodes, track.id, track)]

\* only the outgoing edges of the node are deleted
remove_node_out_only(g, track_id) ==
    IF has_node(g, track_id)
    THEN [nodes |-> SelectSeq(g.nodes, LAMBDA n : n.id # track_id),
          edges |-> {e \in g.edges : e.source_id # track_id}]
    ELSE g

remove_node(g, track_id) ==
    IF has_node(g, track_id)
    THEN [nodes |-> SelectSeq(g.nodes, LAMBDA n : n.id # track_id),
          edges |-> {e \in g.edges : e.source_id # track_id /\ e.target_id # track_id}]
    ELSE g

\* the Track stored at a node, or None (NoTrack)
get_node(g, track_id) ==
    IF has_node(g, track_id)
    THEN g.nodes[CHOOSE i \in 1..Len(g.nodes) : g.nodes[i].id = track_id].track
    ELSE NoTrack

\* data["track"] of every node; KeyError when a node has no "track" attribute
get_all_nodes(g) ==
    IF \E i \in 1..Len(g.nodes) : g.nodes[i].track = NoTrack
    THEN Raised("KeyError")
    ELSE Returned([i \in 1..Len(g.nodes) |-> g.nodes[i].track])

\* a multigraph: a second edge over the same pair is kept next to the first
add_edge_multi(g, edge) ==
    [nodes |-> nx_add_node(nx_add_node(g.nodes, edge.source_id, NoTrack),
                           edge.target_id, NoTrack),
     edges |-> g.edges \cup {edge}]

\* nx.DiGraph.add_edge(u, v, **attr): unknown endpoints become nodes without
\* attributes; the data of an existing (u, v) entry is overwritten
add_edge(g, edge) ==
    [nodes |-> nx_add_node(nx_add_node(g.nodes, edge.source_id, NoTrack),
                           edge.target_id, NoTrack),
     edges |-> {e \in g.edges : ~(e.source_id = edge.source_id
                                  /\ e.target_id = edge.target_id)} \cup {edge}]

get_edge(g, source_id, target_id) ==
    IF has_edge(g, source_id, target_id)
    THEN CHOOSE e \in g.edges : e.source_id = source_id /\ e.target_id = target_id
    ELSE [none |-> TRUE]

\* max_ratio = 0.20
bpm_compatible_wide(bpm_a, bpm_b) ==
    LET hi == Max(bpm_a, bpm_b)
        lo == Min(bpm_a, bpm_b)
    IN  IF bpm_a <= 0 \/ bpm_b <= 0 THEN TRUE
        ELSE IF 100 * hi <= 120 * lo THEN TRUE
        ELSE IF 190 * lo <= 100 * hi /\ 100 * hi <= 210 * lo THEN TRUE
        ELSE FALSE

\* max_ratio = 0.12
bpm_compatible(bpm_a, bpm_b) ==
    LET hi == Max(bpm_a, bpm_b)
        lo == Min(bpm_a, bpm_b)
    IN  IF bpm_a <= 0 \/ bpm_b <= 0 THEN TRUE
        ELSE IF 100 * hi <= 112 * lo THEN TRUE
        ELSE IF 190 * lo <= 100 * hi /\ 100 * hi <= 210 * lo THEN TRUE
        ELSE FALSE

\* score >= threshold, threshold in thousandths
PassesThreshold(score, threshold) == score >= 100 * threshold

\* Edge(source_id=a.id, target_id=b.id, compatibility_score=score, scores=scores)
\* for c = (score, scores)
ComputedEdge(track_a, track_b, c) ==
    mkEdge(track_a.id, track_b.id, c.aggregate, c.scores, FALSE)

\* the edge is stored but new_edges.append(edge) is forgotten
StoreIfPasses_unreported(st, edge, threshold) ==
    IF PassesThreshold(edge.compatibility_score, threshold)
    THEN [g |-> add_edge(st.g, edge), new |-> st.new]
    ELSE st

\* if score >= threshold: self.add_edge(edge); new_edges.append(edge).
\* st = [g, new]: the graph and the list of new edges so far
StoreIfPasses(st, edge, threshold) ==
    IF PassesThreshold(edge.compatibility_score, threshold)
    THEN [g |-> add_edge(st.g, edge), new |-> Append(st.new, edge)]
    ELSE st

\* one direction of one pair: score it and store the edge when it passes
ScoreAndStore(st, track_a, track_b, threshold, config) ==
    StoreIfPasses(st,
                  ComputedEdge(track_a, track_b,
                               compute_compatibility(track_a, track_b, config)),
                  threshold)

\* the has_edge test is missing: a pair that already has an edge is scored
\* and stored again
compute_edges_body_no_skip(st, all, i, j, threshold, config) ==
    IF i = j THEN st
    ELSE IF ~bpm_compatible(all[i].bpm, all[j].bpm) THEN st
    ELSE ScoreAndStore(st, all[i], all[j], threshold, config)

\* body of the double loop of compute_edges for indices i, j
compute_edges_body(st, all, i, j, threshold, config) ==
    IF i = j THEN st
    ELSE IF has_edge(st.g, all[i].id, all[j].id) THEN st
    ELSE IF ~bpm_compatible(all[i].bpm, all[j].bpm) THEN st
    ELSE ScoreAndStore(st, all[i], all[j], threshold, config)

\* the k-th iteration (0-based, row-major) of the loops over rows x cols
RECURSIVE compute_edges_loop(_, _, _, _, _)
compute_edges_loop(st, all, k, threshold, config) ==
    IF k >= Len(all) * Len(all) THEN st
    ELSE compute_edges_loop(
            compute_edges_body(st, all, (k \div Len(all)) + 1, (k % Len(all)) + 1,
                               threshold, config),
            all, k + 1, threshold, config)

\* return new_edges, with the graph the loops leave behind
LoopResult(st) == [g |-> st.g, ret |-> Returned(st.new)]

\* returns [g, ret]
compute_edges(g, threshold, config) ==
    LET all == get_all_nodes(g)
    IN  IF all.exc # "none" THEN [g |-> g, ret |-> all]
        ELSE LoopResult(compute_edges_loop([g |-> g, new |-> <<>>], all.value, 0,
                                           threshold, config))

\* the incremental loop without its second half: the edge from the
\* existing track to the new one is never computed
new_tracks_body_one_way(st, new_track, existing_track, new_ids, threshold, config) ==
    IF new_track.id = existing_track.id THEN st
    ELSE IF ~bpm_compatible(new_track.bpm, existing_track.bpm) THEN st
    ELSE IF ~has_edge(st.g, new_track.id, existing_track.id)
         THEN ScoreAndStore(st, new_track, existing_track, threshold, config)
         ELSE st

\* new -> existing: if not self.has_edge(new_track.id, existing_track.id)
new_to_existing(st, new_track, existing_track, threshold, config) ==
    IF ~has_edge(st.g, new_track.id, existing_track.id)
    THEN ScoreAndStore(st, new_track, existing_track, threshold, config)
    ELSE st

\* existing -> new: if existing_track.id not in new_ids
\*                   and not self.has_edge(existing_track.id, new_track.id)
existing_to_new(st, new_track, existing_track, new_ids, threshold, config) ==
    IF existing_track.id \notin new_ids
       /\ ~has_edge(st.g, existing_track.id, new_track.id)
    THEN ScoreAndStore(st, existing_track, new_track, threshold, config)
    ELSE st

\* the has_edge tests are missing: existing edges are recomputed
new_tracks_body_overwrite(st, new_track, existing_track, new_ids, threshold, config) ==
    IF new_track.id = existing_track.id THEN st
    ELSE IF ~bpm_compatible(new_track.bpm, existing_track.bpm) THEN st
    ELSE IF existing_track.id \notin new_ids
         THEN ScoreAndStore(
                 ScoreAndStore(st, new_track, existing_track, threshold, config),
                 existing_track, new_track, threshold, config)
         ELSE ScoreAndStore(st, new_track, existing_track, threshold, config)

\* body of the double loop of compute_edges_for_new_tracks
new_tracks_body(st, new_track, existing_track, new_ids, threshold, config) ==
    IF new_track.id = existing_track.id THEN st
    ELSE IF ~bpm_compatible(new_track.bpm, existing_track.bpm) THEN st
    ELSE existing_to_new(
            new_to_existing(st, new_track, existing_track, threshold, config),
            new_track, existing_track, new_ids, threshold, config)

RECURSIVE new_tracks_loop(_, _, _, _, _, _)
new_tracks_loop(st, new_tracks, all, k, threshold, config) ==
    IF k >= Len(new_tracks) * Len(all) THEN st
    ELSE new_tracks_loop(
            new_tracks_body(st, new_tracks[(k \div Len(all)) + 1],
                            all[(k % Len(all)) + 1],
                            {new_tracks[i].id : i \in 1..Len(new_tracks)},
                            threshold, config),
            new_tracks, all, k + 1, threshold, config)

\* returns [g, ret]
compute_edges_for_new_tracks(g, new_tracks, threshold, config) ==
    LET all == get_all_nodes(g)
    IN  IF all.exc # "none" THEN [g |-> g, ret |-> all]
        ELSE LoopResult(new_tracks_loop([g |-> g, new |-> <<>>], new_tracks,
                                        all.value, 0, threshold, config))


(***************************************************************************)
(* Sequence optimizer (graph/pathfinding.py)                               *)
(***************************************************************************)

_compat(track_a, track_b, config) ==
    compute_compatibility(track_a, track_b, config).aggregate

RECURSIVE total_compatibility(_, _)
total_compatibility(ordered, config) ==
    IF Len(ordered) < 2 THEN 0
    ELSE _compat(ordered[1], ordered[2], config)
         + total_compatibility(Tail(ordered), config)

\* max(remaining, key=...) over a set of small ints: CPython visits them in
\* ascending order and max keeps the first maximal element
ArgMax(remaining, key) ==
    CHOOSE i \in remaining :
        /\ \A k \in remaining : key[k] <= key[i]
        /\ \A k \in remaining : key[k] = key[i] => i <= k

\* next(i for i, t in enumerate(tracks) if t.id == start.id, None); 0 is None
FindStart(tracks, start) ==
    IF \E i \in 1..Len(tracks) : tracks[i].id = start.id
    THEN CHOOSE i \in 1..Len(tracks) :
            /\ tracks[i].id = start.id
            /\ \A k \in 1..(i - 1) : tracks[k].id # start.id
    ELSE 0

RECURSIVE greedy_loop(_, _, _, _)
greedy_loop(tracks, ordered_indices, remaining, config) ==
    IF remaining = {} THEN ordered_indices
    ELSE LET current_track == tracks[ordered_indices[Len(ordered_indices)]]
             best_idx == ArgMax(remaining,
                                [i \in remaining |->
                                    _compat(current_track, tracks[i], config)])
         IN  greedy_loop(tracks, Append(ordered_indices, best_idx),
                         remaining \ {best_idx}, config)

\* start = NoTrack models start=None
greedy_order(tracks, start, config) ==
    IF Len(tracks) <= 1 THEN tracks
    ELSE LET remaining == 1..Len(tracks)
             found == IF start # NoTrack THEN FindStart(tracks, start) ELSE 0
             current_idx == IF found # 0 THEN found
                            ELSE ArgMax(remaining, [i \in remaining |-> tracks[i].energy])
             ordered_indices == greedy_loop(tracks, <<current_idx>>,
                                            remaining \ {current_idx}, config)
         IN  [k \in 1..Len(tracks) |-> tracks[ordered_indices[k]]]

\* the reversed slice is taken one position too far to the left
ReverseSegment_shifted(result, i, j) ==
    [k \in 1..Len(result) |->
        IF i <= k /\ k <= j THEN result[i + j - k - 1] ELSE result[k]]

\* result[:i] + result[i:j + 1][::-1] + result[j + 1:], positions from 1
ReverseSegment(result, i, j) ==
    [k \in 1..Len(result) |-> IF i <= k /\ k <= j THEN result[i + j - k] ELSE result[k]]

\* the comparison is turned round: a reversal is accepted when it lowers the sum
two_opt_try_lower(st, i, j, config) ==
    LET new_order == ReverseSegment(st.result, i, j)
        new_score == total_compatibility(new_order, config)
    IN  IF new_score < st.best_score
        THEN [result |-> new_order, best_score |-> new_score, improved |-> TRUE]
        ELSE st

\* one candidate (i, j) of a sweep; st = [result, best_score, improved]
two_opt_try(st, i, j, config) ==
    LET new_order == ReverseSegment(st.result, i, j)
        new_score == total_compatibility(new_order, config)
    IN  IF new_score > st.best_score
        THEN [result |-> new_order, best_score |-> new_score, improved |-> TRUE]
        ELSE st

\* the inner loop stops one position early: for j in range(i + 1, n - 1)
RECURSIVE two_opt_sweep_short(_, _, _, _)
two_opt_sweep_short(st, i, j, config) ==
    IF i > Len(st.result) - 1 THEN st
    ELSE IF j > Len(st.result) - 1 THEN two_opt_sweep_short(st, i + 1, i + 2, config)
    ELSE two_opt_sweep_short(two_opt_try(st, i, j, config), i, j + 1, config)

\* for i in range(1, n - 1): for j in range(i + 1, n), positions from 1
RECURSIVE two_opt_sweep(_, _, _, _)
two_opt_sweep(st, i, j, config) ==
    IF i > Len(st.result) - 1 THEN st
    ELSE IF j > Len(st.result) THEN two_opt_sweep(st, i + 1, i + 2, config)
    ELSE two_opt_sweep(two_opt_try(st, i, j, config), i, j + 1, config)

\* the sweep starts at the first position: for i in range(0, n - 1)
RECURSIVE two_opt_while_from_first(_, _, _)
two_opt_while_from_first(st, max_iterations, config) ==
    IF st.improved /\ st.iteration < max_iterations
    THEN LET sw == two_opt_sweep([result |-> st.result, best_score |-> st.best_score,
                                  improved |-> FALSE], 1, 2, config)
         IN  two_opt_while_from_first(
                [result |-> sw.result, best_score |-> sw.best_score,
                 improved |-> sw.improved, iteration |-> st.iteration + 1],
                max_iterations, config)
    ELSE st

\* the while loop; st also carries the sweep counter
RECURSIVE two_opt_while(_, _, _)
two_opt_while(st, max_iterations, config) ==
    IF st.improved /\ st.iteration < max_iterations
    THEN LET sw == two_opt_sweep([result |-> st.result, best_score |-> st.best_score,
                                  improved |-> FALSE], 2, 3, config)
         IN  two_opt_while([result |-> sw.result, best_score |-> sw.best_score,
                            improved |-> sw.improved, iteration |-> st.iteration + 1],
                           max_iterations, config)
    ELSE st

\* the state of two_opt_improve at its return statement
two_opt_run(ordered, max_iterations, config) ==
    IF Len(ordered) < 3
    THEN [result |-> ordered, best_score |-> total_compatibility(ordered, config),
          improved |-> FALSE, iteration |-> 0]
    ELSE two_opt_while([result |-> ordered,
                        best_score |-> total_compatibility(ordered, config),
                        improved |-> TRUE, iteration |-> 0],
                       max_iterations, config)

two_opt_improve(ordered, max_iterations, config) ==
    two_opt_run(ordered, max_iterations, config).result

optimal_order(tracks, start, config, max_2opt_iterations) ==
    two_opt_improve(greedy_order(tracks, start, config), max_2opt_iterations, config)


(***************************************************************************)
(* The graph as a state machine: one action per TrackGraph operation       *)
(***************************************************************************)

\* bound on the number of operations called on one graph
MaxOps == 5

\* thresholds, in thousandths, passed by callers
Thresholds == {0, 700}

\* only the directional mix quality counts
MixOnly == mkConfig(0, 0, 0, 0, 0, 2)

Configs == {NoConfig, MixOnly}

\* the sub-scores the tests give a hand-made Edge
TestScores ==
    [harmonic |-> 850, bpm |-> 900, energy |-> 700,
     groove |-> 1000, frequency |-> 700, mix_quality |-> 800]

\* edges a caller inserts with add_edge: a manual edge over a pair the BPM
\* pre-filter rejects, a manual edge over a pair it accepts, and an edge
\* loaded from storage
EdgeInputs ==
    {mkEdge(1, 3, 20000, TestScores, TRUE),
     mkEdge(2, 1, 80000, TestScores, TRUE),
     mkEdge(3, 4, 80000, TestScores, FALSE)}

\* the new_tracks lists a caller passes
NewTrackLists == {<<>>, <<T1>>, <<T2>>, <<T4, T2>>, <<T3, T3>>}

RECURSIVE SeqsUpTo(_, _)
SeqsUpTo(S, n) ==
    IF n = 0 THEN {<<>>}
    ELSE SeqsUpTo(S, n - 1) \cup
         {Append(q, x) : q \in {r \in SeqsUpTo(S, n - 1) : Len(r) = n - 1}, x \in S}

G == [nodes |-> nodes, edges |-> edges]

Idle == [pc |-> "idle"]

NoOp ==
    [name |-> "init", arg |-> <<>>, threshold |-> 0, config |-> NoConfig,
     repeat |-> FALSE, before |-> 0]

\* the record of a call: its name and arguments, whether it repeats the
\* previous call (same operation, same arguments, and that call returned),
\* and edge_count before it
Call(name, arg, threshold, config) ==
    [name |-> name, arg |-> arg, threshold |-> threshold, config |-> config,
     repeat |-> /\ op.name = name
                /\ op.arg = arg
                /\ op.threshold = threshold
                /\ op.config = config
                /\ ret.exc = "none",
     before |-> edge_count(G)]

Init ==
    /\ nodes = <<>>
    /\ edges = {}
    /\ op = NoOp
    /\ ret = Returned(<<>>)
    /\ nops = 0
    /\ pf = Idle

AddNode ==
    \E track \in Library :
        /\ nops < MaxOps
        /\ nodes' = add_node(G, track).nodes
        /\ edges' = add_node(G, track).edges
        /\ op' = Call("add_node", track.id, 0, NoConfig)
        /\ ret' = Returned(<<>>)
        /\ nops' = nops + 1
        /\ UNCHANGED pf

RemoveNode ==
    \E track_id \in Ids :
        /\ nops < MaxOps
        /\ nodes' = remove_node(G, track_id).nodes
        /\ edges' = remove_node(G, track_id).edges
        /\ op' = Call("remove_node", track_id, 0, NoConfig)
        /\ ret' = Returned(<<>>)
        /\ nops' = nops + 1
        /\ UNCHANGED pf

AddEdge ==
    \E edge \in EdgeInputs :
        /\ nops < MaxOps
        /\ nodes' = add_edge(G, edge).nodes
        /\ edges' = add_edge(G, edge).edges
        /\ op' = Call("add_edge", edge, 0, NoConfig)
        /\ ret' = Returned(<<>>)
        /\ nops' = nops + 1
        /\ UNCHANGED pf

ComputeEdges ==
    \E threshold \in Thresholds, config \in Configs :
        LET r == compute_edges(G, threshold, config)
        IN  /\ nops < MaxOps
            /\ nodes' = r.g.nodes
            /\ edges' = r.g.edges
            /\ op' = Call("compute_edges", <<>>, threshold, config)
            /\ ret' = r.ret
            /\ nops' = nops + 1
            /\ UNCHANGED pf

ComputeEdgesForNewTracks ==
    \E new_tracks \in NewTrackLists,
       threshold \in Thresholds, config \in Configs :
        LET r == compute_edges_for_new_tracks(G, new_tracks, threshold, config)
        IN  /\ nops < MaxOps
            /\ nodes' = r.g.nodes
            /\ edges' = r.g.edges
            /\ op' = Call("compute_edges_for_new_tracks", new_tracks, threshold, config)
            /\ ret' = r.ret
            /\ nops' = nops + 1
            /\ UNCHANGED pf

Next ==
    \/ AddNode
    \/ RemoveNode
    \/ AddEdge
    \/ ComputeEdges
    \/ ComputeEdgesForNewTracks

Spec == Init /\ [][Next]_vars


(***************************************************************************)
(* Incremental edge computation in two batches (PERF-002): the graph is    *)
(* built as the tests and the analysis handler build it, each batch added  *)
(* with add_node and then passed to compute_edges_for_new_tracks           *)
(***************************************************************************)

\* bound on the number of tracks of one batch
MaxBatch == 3

\* lists of distinct tracks
DistinctSeqs(S, n) ==
    {q \in SeqsUpTo(S, n) : \A i, j \in 1..Len(q) : i # j => q[i] # q[j]}

Range(q) == {q[i] : i \in 1..Len(q)}

RECURSIVE add_nodes(_, _)
add_nodes(g, tracks) ==
    IF tracks = <<>> THEN g
    ELSE add_nodes(add_node(g, Head(tracks)), Tail(tracks))

BatchInit ==
    /\ nodes = <<>>
    /\ edges = {}
    /\ op = NoOp
    /\ ret = Returned(<<>>)
    /\ nops = 0
    /\ \E first \in DistinctSeqs(Library, MaxBatch),
          second \in DistinctSeqs(Library, MaxBatch),
          threshold \in Thresholds, config \in Configs :
            /\ Range(first) \cap Range(second) = {}
            /\ pf = [pc |-> "start", first |-> first, second |-> second,
                     threshold |-> threshold, config |-> config]

AddBatch(tracks, pc) ==
    LET r == compute_edges_for_new_tracks(add_nodes(G, tracks), tracks,
                                          pf.threshold, pf.config)
    IN  /\ nodes' = r.g.nodes
        /\ edges' = r.g.edges
        /\ op' = Call("compute_edges_for_new_tracks", tracks, pf.threshold, pf.config)
        /\ ret' = r.ret
        /\ nops' = nops + 1
        /\ pf' = [pf EXCEPT !.pc = pc]

FirstBatch == pf.pc = "start" /\ AddBatch(pf.first, "first")

SecondBatch == pf.pc = "first" /\ AddBatch(pf.second, "done")

BatchNext == FirstBatch \/ SecondBatch

SpecBatch == BatchInit /\ [][BatchNext]_vars

(***************************************************************************)
(* The sequence optimizer applied to bounded inputs                        *)
(***************************************************************************)

\* bound on the length of the track list
MaxLen == 3

\* bound on max_iterations
MaxIter == 2

PathInit ==
    /\ nodes = <<>>
    /\ edges = {}
    /\ op = NoOp
    /\ ret = Returned(<<>>)
    /\ nops = 0
    /\ \E tracks \in SeqsUpTo(Library, MaxLen), start \in Library \cup {NoTrack},
          config \in Configs, max_iterations \in 0..MaxIter :
            pf = [pc |-> "start", tracks |-> tracks, start |-> start,
                  config |-> config, max_iterations |-> max_iterations,
                  result |-> <<>>]

GreedyOrder ==
    /\ pf.pc = "start"
    /\ pf' = [pf EXCEPT !.pc = "greedy_order",
                        !.result = greedy_order(pf.tracks, pf.start, pf.config)]
    /\ UNCHANGED <<nodes, edges, op, ret, nops>>

TwoOptImprove ==
    /\ pf.pc = "start"
    /\ pf' = [pf EXCEPT !.pc = "two_opt_improve",
                        !.result = two_opt_improve(pf.tracks, pf.max_iterations,
                                                   pf.config)]
    /\ UNCHANGED <<nodes, edges, op, ret, nops>>

OptimalOrder ==
    /\ pf.pc = "start"
    /\ pf' = [pf EXCEPT !.pc = "optimal_order",
                        !.result = optimal_order(pf.tracks, pf.start, pf.config,
                                                 pf.max_iterations)]
    /\ UNCHANGED <<nodes, edges, op, ret, nops>>

PathNext == GreedyOrder \/ TwoOptImprove \/ OptimalOrder

SpecPath == PathInit /\ [][PathNext]_vars


(***************************************************************************)
(* Properties of the compatibility graph                                   *)
(***************************************************************************)

GNext == [nodes |-> nodes', edges |-> edges']

ComputeOps == {"compute_edges", "compute_edges_for_new_tracks"}

\* the ordered (source_id, target_id) pairs that have an edge
EdgePairs(E) == {<<e.source_id, e.target_id>> : e \in E}

\* max(bpm)/min(bpm) is at most 1.12 or lies in [1.90, 2.10]
RatioAllowed(bpm_a, bpm_b) ==
    LET hi == Max(bpm_a, bpm_b)
        lo == Min(bpm_a, bpm_b)
    IN  \/ 100 * hi <= 112 * lo
        \/ (190 * lo <= 100 * hi /\ 100 * hi <= 210 * lo)

\* C1: once both batches have been added as nodes and passed to
\* compute_edges_for_new_tracks, both calls have returned and the graph holds
\* exactly the edges (source, target, score, sub-scores) that one
\* compute_edges call stores on a graph to which all the tracks were added
C1_IncrementalMatchesFull ==
    pf.pc = "done" =>
        /\ ret.exc = "none"
        /\ edges = compute_edges(add_nodes(EmptyGraph, pf.first \o pf.second),
                                 pf.threshold, pf.config).g.edges

\* both batches are non-empty, edges run between them in both directions,
\* and some pair of the final node set got no edge
C1_Witness ==
    /\ pf.pc = "done"
    /\ \E e \in edges : /\ TrackOf(e.source_id) \in Range(pf.first)
                        /\ TrackOf(e.target_id) \in Range(pf.second)
    /\ \E e \in edges : /\ TrackOf(e.source_id) \in Range(pf.second)
                        /\ TrackOf(e.target_id) \in Range(pf.first)
    /\ \E e \in edges : {TrackOf(e.source_id), TrackOf(e.target_id)} \subseteq Range(pf.second)
    /\ \E a \in Range(pf.first), b \in Range(pf.second) : ~has_edge(G, a.id, b.id)

C3_OneEdgePerOrderedPair ==
    /\ [](/\ \A e1, e2 \in edges :
                (e1.source_id = e2.source_id /\ e1.target_id = e2.target_id)
                    => e1 = e2
          /\ edge_count(G) = Cardinality(EdgePairs(edges)))
    /\ [][op'.name # "remove_node" => EdgePairs(edges) \subseteq EdgePairs(edges')]_vars

\* a->b and b->a are both stored, with different data, after add_edge has
\* been called over a pair that already had a computed edge
C3_Witness ==
    /\ op.name = "add_edge"
    /\ op.before = edge_count(G)
    /\ edge_count(G) >= 2
    /\ \E e1, e2 \in edges :
            /\ e1.source_id = e2.target_id
            /\ e1.target_id = e2.source_id
            /\ e1.is_user_created
            /\ ~e2.is_user_created

\* C4: every edge with is_user_created = true that the graph holds when
\* compute_edges or compute_edges_for_new_tracks is called is still what
\* get_edge returns for its pair after the call, with the same score,
\* sub-scores and flag
C4_UserEdgesSurviveCompute ==
    [][op'.name \in ComputeOps =>
        \A e \in edges :
            e.is_user_created => get_edge(GNext, e.source_id, e.target_id) = e]_vars

\* a compute call has returned new edges on a graph that holds a manual edge
\* over a pair the pre-filter rejects, with a score below the threshold of
\* the call
C4_Witness ==
    /\ op.name \in ComputeOps
    /\ ret.exc = "none"
    /\ ret.value # <<>>
    /\ \E e \in edges :
            /\ e.is_user_created
            /\ ~bpm_compatible(TrackOf(e.source_id).bpm, TrackOf(e.target_id).bpm)
            /\ ~PassesThreshold(e.compatibility_score, op.threshold)

\* C5: every edge that a compute_edges or compute_edges_for_new_tracks call
\* creates, and every edge it returns, joins two tracks whose BPM ratio
\* max/min is at most 1.12 or lies in [1.90, 2.10]
C5_ComputedEdgesPassPrefilter ==
    [][op'.name \in ComputeOps =>
        /\ \A e \in edges' \ edges :
                RatioAllowed(TrackOf(e.source_id).bpm, TrackOf(e.target_id).bpm)
        /\ \A k \in 1..Len(ret'.value) :
                RatioAllowed(TrackOf(ret'.value[k].source_id).bpm,
                             TrackOf(ret'.value[k].target_id).bpm)]_vars

\* compute_edges with threshold 0 has returned edges on a graph that holds
\* the 128 and the 150 BPM track, and neither direction of that pair has an edge
C5_Witness ==
    /\ op.name = "compute_edges"
    /\ op.threshold = 0
    /\ ret.exc = "none"
    /\ ret.value # <<>>
    /\ {T1.id, T3.id} \subseteq NodeIds(G)
    /\ ~has_edge(G, T1.id, T3.id)
    /\ ~has_edge(G, T3.id, T1.id)
    /\ \E e \in edges : TrackOf(e.source_id).bpm = 2 * TrackOf(e.target_id).bpm

\* C6: a compute_edges call that returns removes no edge and adds an edge
\* a->b for exactly the ordered pairs of distinct nodes that had no edge
\* a->b, pass the BPM pre-filter and score at least the threshold; it adds no
\* edge from a node to itself; the returned list holds exactly the added
\* edges, each once, so edge_count grows by its length
C6_ComputeEdgesExact ==
    [][(op'.name = "compute_edges" /\ ret'.exc = "none") =>
        LET added == edges' \ edges
        IN  /\ edges \subseteq edges'
            /\ nodes' = nodes
            /\ \A a, b \in NodeIds(G) :
                  (<<a, b>> \in EdgePairs(added)) <=>
                      /\ a # b
                      /\ ~has_edge(G, a, b)
                      /\ RatioAllowed(get_node(G, a).bpm, get_node(G, b).bpm)
                      /\ _compat(get_node(G, a), get_node(G, b), op'.config)
                            >= 100 * op'.threshold
            /\ \A e \in added :
                  /\ e.source_id # e.target_id
                  /\ {e.source_id, e.target_id} \subseteq NodeIds(G)
                  /\ e = mkEdge(e.source_id, e.target_id,
                                _compat(get_node(G, e.source_id),
                                        get_node(G, e.target_id), op'.config),
                                EdgeScores(get_node(G, e.source_id),
                                           get_node(G, e.target_id)), FALSE)
            /\ Range(ret'.value) = added
            /\ Len(ret'.value) = Cardinality(added)
            /\ edge_count(GNext) = edge_count(G) + Len(ret'.value)]_vars

\* one compute_edges call that added edges and left out a pair for each
\* reason: it had an edge, the pre-filter rejects it, it scores below the
\* threshold
C6_Witness ==
    /\ op.name = "compute_edges"
    /\ ret.exc = "none"
    /\ Len(ret.value) >= 1
    /\ edge_count(G) = op.before + Len(ret.value)
    /\ \E e \in edges \ Range(ret.value) :
            {e.source_id, e.target_id} \subseteq NodeIds(G)
    /\ \E a, b \in NodeIds(G) :
            /\ a # b
            /\ ~has_edge(G, a, b)
            /\ ~RatioAllowed(get_node(G, a).bpm, get_node(G, b).bpm)
    /\ \E a, b \in NodeIds(G) :
            /\ a # b
            /\ ~has_edge(G, a, b)
            /\ RatioAllowed(get_node(G, a).bpm, get_node(G, b).bpm)

\* C7: remove_node(x) returns without raising; afterwards x is not a node
\* and no edge has x as source or target, the other nodes are the same
\* nodes in the same order and the edges are exactly the former edges that
\* do not touch x; when x was not a node nothing changes
C7_RemoveNodeCascades ==
    [][op'.name = "remove_node" =>
        LET x == op'.arg
        IN  /\ ret'.exc = "none"
            /\ ~has_node(GNext, x)
            /\ \A e \in edges' : e.source_id # x /\ e.target_id # x
            /\ nodes' = SelectSeq(nodes, LAMBDA n : n.id # x)
            /\ edges' = {e \in edges : e.source_id # x /\ e.target_id # x}
            /\ (~has_node(G, x) => (nodes' = nodes /\ edges' = edges))]_vars

\* remove_node has taken edges away, among them one that entered the node,
\* and an edge between two other nodes is still there
C7_Witness ==
    /\ op.name = "remove_node"
    /\ edge_count(G) >= 1
    /\ op.before >= edge_count(G) + 2
    /\ ~has_node(G, op.arg)

(***************************************************************************)
(* Properties of the sequence optimizer                                    *)
(***************************************************************************)

Count(q, x) == Cardinality({i \in 1..Len(q) : q[i] = x})

\* every track occurs in a as often as in b
SamePermutation(a, b) ==
    /\ Len(a) = Len(b)
    /\ \A x \in Range(a) \cup Range(b) : Count(a, x) = Count(b, x)

\* the start argument names a track of the input list
StartInList == \E i \in 1..Len(pf.tracks) : pf.tracks[i].id = pf.start.id

\* C8: the sum of consecutive scores of what two_opt_improve returns is at
\* least that of its input, and the sum of optimal_order's result is at
\* least that of greedy_order's result on the same input
C8_TwoOptNeverWorse ==
    /\ pf.pc = "two_opt_improve" =>
          total_compatibility(pf.result, pf.config)
              >= total_compatibility(pf.tracks, pf.config)
    /\ pf.pc = "optimal_order" =>
          total_compatibility(pf.result, pf.config)
              >= total_compatibility(greedy_order(pf.tracks, pf.start, pf.config),
                                     pf.config)

\* optimal_order has returned an order that is strictly better than the
\* greedy order of the same input
C8_Witness ==
    /\ pf.pc = "optimal_order"
    /\ pf.max_iterations >= 1
    /\ total_compatibility(pf.result, pf.config)
          > total_compatibility(greedy_order(pf.tracks, pf.start, pf.config),
                                pf.config)

\* C9: greedy_order, two_opt_improve and optimal_order return a permutation
\* of their input list, and an input of 0 or 1 tracks comes back as it is
C9_ResultIsPermutation ==
    pf.pc \in {"greedy_order", "two_opt_improve", "optimal_order"} =>
        /\ SamePermutation(pf.result, pf.tracks)
        /\ Len(pf.tracks) <= 1 => pf.result = pf.tracks

\* two_opt_improve has returned a list with a repeated track in an order
\* other than the input order
C9_Witness ==
    /\ pf.pc = "two_opt_improve"
    /\ pf.result # pf.tracks
    /\ Len(pf.tracks) = MaxLen
    /\ \E x \in Range(pf.tracks) : Count(pf.tracks, x) = 2

\* C10: a start track that is in the input list is the first element of
\* the result of greedy_order and of optimal_order; without a start, or with
\* a start that is not in the list, greedy_order's first element has the
\* highest energy of the list
C10_StartTrackFirst ==
    /\ (pf.pc \in {"greedy_order", "optimal_order"}
            /\ pf.start # NoTrack /\ StartInList)
          => pf.result[1].id = pf.start.id
    /\ (pf.pc = "greedy_order" /\ Len(pf.tracks) >= 1
            /\ (pf.start = NoTrack \/ ~StartInList))
          => \A i \in 1..Len(pf.tracks) : pf.tracks[i].energy <= pf.result[1].energy

\* optimal_order was given a start that is neither the first nor the most
\* energetic track of the list, and its 2-opt pass has changed the greedy order
C10_Witness ==
    /\ pf.pc = "optimal_order"
    /\ pf.start # NoTrack
    /\ StartInList
    /\ pf.tracks[1] # pf.start
    /\ \E i \in 1..Len(pf.tracks) : pf.tracks[i].energy > pf.start.energy
    /\ pf.result # greedy_order(pf.tracks, pf.start, pf.config)
    /\ pf.result[1] = pf.start


(***************************************************************************)
(* Suggestion engine (suggestions/engine.py, filters.py, strategies.py)    *)
(*                                                                         *)
(* Units.  A strategy modifier is an integer number of 1/10000 (1.32 is    *)
(* 13200), a context modifier and a diversity bonus are thousandths.  A    *)
(* final score is a pair [hi, lo] that stands for hi * 1000 + lo in units  *)
(* of 10^-12, compared hi first: the product of the three factors does not *)
(* fit one machine integer.                                                *)
(***************************************************************************)

\* Optional[int] / Optional[float]: None is <<>>, a value v is <<v>>
None == <<>>
Some(v) == <<v>>

\* a Track with the fields the graph state mutates: cluster_id, times_used
WithUse(track, cluster_id, times_used) ==
    [id |-> track.id, bpm |-> track.bpm, bpm_stability |-> track.bpm_stability,
     key |-> track.key, key_confidence |-> track.key_confidence,
     energy |-> track.energy, groove_type |-> track.groove_type,
     frequency_weight |-> track.frequency_weight,
     mix_in_score |-> track.mix_in_score, mix_out_score |-> track.mix_out_score,
     cluster_id |-> cluster_id, times_used |-> times_used]

\* a fifth track in the key and groove of the first
T5 == mkTrack(5, 126, 950, <<"8", "A">>, 900, 600, "four_on_floor", "bass_heavy", 750, 500)

S1 == WithUse(T1, Some(0), 0)
S2 == WithUse(T2, Some(0), 2)
S3 == WithUse(T3, Some(1), 5)
S4 == WithUse(T4, None, 0)
S5 == WithUse(T5, Some(1), 1)

SuggestLibrary == {S1, S2, S3, S4, S5}

\* last_n_tracks[-n:]
LastN(q, n) == SubSeq(q, Max(1, Len(q) - n + 1), Len(q))

\* the product of three factors given in thousandths, in thousandths
Times3(a, b, c) == (((a * b) \div 1000) * c) \div 1000

\* the key is compared with the last track only
sequence_context_modifier_last_key(candidate, last_n_tracks) ==
    Times3(IF Len(last_n_tracks) >= 1
              /\ candidate.key \in {t.key : t \in Range(LastN(last_n_tracks, 1))}
           THEN 800 ELSE 1000,
           IF Len(last_n_tracks) >= 1
              /\ candidate.cluster_id # None
              /\ candidate.cluster_id \in
                    {t.cluster_id : t \in Range(LastN(last_n_tracks, 3))} \ {None}
           THEN 850 ELSE 1000,
           IF Len(last_n_tracks) >= 4
              /\ \A t \in Range(LastN(last_n_tracks, 4)) :
                    t.groove_type = candidate.groove_type
           THEN 900 ELSE 1000)

sequence_context_modifier(candidate, last_n_tracks) ==
    Times3(IF Len(last_n_tracks) >= 1
              /\ candidate.key \in {t.key : t \in Range(LastN(last_n_tracks, 2))}
           THEN 800 ELSE 1000,
           IF Len(last_n_tracks) >= 1
              /\ candidate.cluster_id # None
              /\ candidate.cluster_id \in
                    {t.cluster_id : t \in Range(LastN(last_n_tracks, 3))} \ {None}
           THEN 850 ELSE 1000,
           IF Len(last_n_tracks) >= 4
              /\ \A t \in Range(LastN(last_n_tracks, 4)) :
                    t.groove_type = candidate.groove_type
           THEN 900 ELSE 1000)

\* the test for an empty history is dropped
diversity_bonus_score_without_history(candidate, last_n_tracks, bonus) ==
    IF bonus <= 0 THEN 0
    ELSE IF candidate.cluster_id # None
            /\ candidate.cluster_id \notin
                  {t.cluster_id : t \in Range(LastN(last_n_tracks, 3))} \ {None}
         THEN bonus
         ELSE 0

diversity_bonus_score(candidate, last_n_tracks, bonus) ==
    IF bonus <= 0 \/ last_n_tracks = <<>> THEN 0
    ELSE IF candidate.cluster_id # None
            /\ candidate.cluster_id \notin
                  {t.cluster_id : t \in Range(LastN(last_n_tracks, 3))} \ {None}
         THEN bonus
         ELSE 0

harmonic_flow_modifier(candidate, current) == 10000

\* min(1.0, sequence_position / max(1, estimated_set_length)), in twentieths
\* of estimated_set_length = 20
SetProgress20(sequence_position) == Min(20, sequence_position)

\* target energy in 1/10000 at progress k/20: 0.5 + 0.5p below 0.3,
\* 0.7 + 0.3p below 0.7, else 0.9 - 1.5(p - 0.7), clamped to [0, 1]
TargetEnergy(k) ==
    Max(0, Min(10000, IF k < 6 THEN 5000 + 250 * k
                      ELSE IF k < 14 THEN 7000 + 150 * k
                      ELSE 19500 - 750 * k))

energy_arc_modifier(candidate, current, sequence_position) ==
    5000 + (10000 - Abs(10 * candidate.energy
                        - TargetEnergy(SetProgress20(sequence_position)))) \div 2

discovery_modifier(candidate, current) ==
    IF candidate.times_used = 0 THEN 13000
    ELSE IF candidate.times_used < 3 THEN 11500
    ELSE 10000

groove_lock_modifier(candidate, current) ==
    IF candidate.groove_type = current.groove_type THEN 12000 ELSE 6000

contrast_modifier(candidate, current) ==
    ((IF Abs(candidate.energy - current.energy) > 300 THEN 12000 ELSE 10000)
     * (IF candidate.frequency_weight # current.frequency_weight THEN 11 ELSE 10))
    \div 10

SuggestionStrategy ==
    {"harmonic_flow", "energy_arc", "discovery", "groove_lock", "contrast"}

\* STRATEGY_MODIFIERS.get(strategy, harmonic_flow_modifier) applied to
\* (candidate, current, sequence_position=..., estimated_set_length=20)
get_strategy_modifier(strategy, candidate, current, sequence_position) ==
    CASE strategy = "energy_arc" ->
            energy_arc_modifier(candidate, current, sequence_position)
      [] strategy = "discovery" -> discovery_modifier(candidate, current)
      [] strategy = "groove_lock" -> groove_lock_modifier(candidate, current)
      [] strategy = "contrast" -> contrast_modifier(candidate, current)
      [] OTHER -> harmonic_flow_modifier(candidate, current)

\* SuggestionConfig: the six weights of w and the other fields
mkSuggestionConfig(w, strategy, bpm_min, bpm_max, key_lock, groove_lock, exclude_cluster_ids, num_suggestions, diversity_bonus) ==
    [harmonic_weight |-> w.harmonic_weight, bpm_weight |-> w.bpm_weight,
     energy_weight |-> w.energy_weight, groove_weight |-> w.groove_weight,
     frequency_weight |-> w.frequency_weight,
     mix_quality_weight |-> w.mix_quality_weight,
     strategy |-> strategy, bpm_min |-> bpm_min, bpm_max |-> bpm_max,
     key_lock |-> key_lock, groove_lock |-> groove_lock,
     exclude_cluster_ids |-> exclude_cluster_ids,
     num_suggestions |-> num_suggestions, diversity_bonus |-> diversity_bonus]

\* the weights of SuggestionConfig(): 0.30, 0.25, 0.15, 0.10, 0.10, 0.10
DefaultWeightFields == mkConfig(30, 25, 15, 10, 10, 10)

\* the filters are applied one after the other to the list, which keeps
\* its order: a track stays when it passes every active filter
apply_filters(candidates, current_track, config) ==
    SelectSeq(candidates, LAMBDA t :
        /\ (config.bpm_min # None => t.bpm >= config.bpm_min[1])
        /\ (config.bpm_max # None => t.bpm <= config.bpm_max[1])
        /\ (config.key_lock =>
                harmonic_score(current_track.key, t.key, 1000, 1000) >= 400)
        /\ (config.groove_lock => t.groove_type = current_track.groove_type)
        /\ (config.exclude_cluster_ids # {} =>
                (t.cluster_id = None
                 \/ t.cluster_id[1] \notin config.exclude_cluster_ids)))


\* base_score * strat_mod * ctx_mod + div_bonus as the pair [hi, lo]
FinalScore(base_score, strat_mod, ctx_mod, div_bonus) ==
    [hi |-> ((base_score * strat_mod) \div 1000) * ctx_mod
            + (((base_score * strat_mod) % 1000) * ctx_mod) \div 1000
            + div_bonus * 1000000,
     lo |-> (((base_score * strat_mod) % 1000) * ctx_mod) % 1000]

\* a.final_score > b.final_score
ScoreGreater(a, b) ==
    \/ a.final_score.hi > b.final_score.hi
    \/ (a.final_score.hi = b.final_score.hi /\ a.final_score.lo > b.final_score.lo)

\* SuggestionResult(...) for c = (base_score, score_breakdown)
mkSuggestionResult(candidate, c, strat_mod, ctx_mod, div_bonus) ==
    [track_id |-> candidate.id,
     final_score |-> FinalScore(c.aggregate, strat_mod, ctx_mod, div_bonus),
     base_compatibility |-> c.aggregate,
     strategy_modifier |-> strat_mod,
     context_modifier |-> ctx_mod,
     diversity_bonus |-> div_bonus,
     score_breakdown |-> c.scores]

\* steps 3-6 of the pipeline for one candidate
ScoreCandidate(current_track, candidate, sequence, config) ==
    mkSuggestionResult(
        candidate,
        compute_compatibility(current_track, candidate, config),
        get_strategy_modifier(config.strategy, candidate, current_track, Len(sequence)),
        sequence_context_modifier(candidate, sequence),
        diversity_bonus_score(candidate, sequence, config.diversity_bonus))

\* reverse=True is forgotten: the key of an earlier element must be lower
\* or equal for the new one to go behind it
KeepsBefore_ascending(earlier, later) == ~ScoreGreater(earlier, later)

\* results.sort(key=final_score, reverse=True) is stable: an earlier result
\* stays before a later one unless the later one has the higher key
KeepsBefore(earlier, later) == ~ScoreGreater(later, earlier)

\* x, the next result in list order, enters the sorted prefix behind every
\* result that stays before it
InsertSorted(sorted, x) ==
    [k \in 1..(Len(sorted) + 1) |->
        IF k <= Cardinality({i \in 1..Len(sorted) : KeepsBefore(sorted[i], x)})
        THEN sorted[k]
        ELSE IF k = Cardinality({i \in 1..Len(sorted) : KeepsBefore(sorted[i], x)}) + 1
        THEN x
        ELSE sorted[k - 1]]

RECURSIVE SortResults(_)
SortResults(results) ==
    IF results = <<>> THEN <<>>
    ELSE InsertSorted(SortResults(SubSeq(results, 1, Len(results) - 1)),
                      results[Len(results)])

\* results[:n] for any int n: a negative n counts from the end
SliceTo(results, n) ==
    IF n >= 0 THEN SubSeq(results, 1, Min(n, Len(results)))
    ELSE SubSeq(results, 1, Max(0, Len(results) + n))

\* sequence_ids.add(current_track.id) is forgotten
candidate_pool_keeps_current(all_tracks, current_track, sequence) ==
    SelectSeq(all_tracks, LAMBDA t : t.id \notin {q.id : q \in Range(sequence)})

\* step 1: the tracks whose id is neither in the sequence nor the current one
candidate_pool(all_tracks, current_track, sequence) ==
    SelectSeq(all_tracks, LAMBDA t :
        t.id \notin ({q.id : q \in Range(sequence)} \cup {current_track.id}))

\* total of normalized_weights
WeightTotal(config) ==
    config.harmonic_weight + config.bpm_weight + config.energy_weight
    + config.groove_weight + config.frequency_weight + config.mix_quality_weight

\* the weights are normalized once, ahead of the empty test
rank_candidates_weights_first(candidates, current_track, sequence, config) ==
    IF WeightTotal(config) = 0 THEN Raised("ZeroDivisionError")
    ELSE IF candidates = <<>> THEN Returned(<<>>)
    ELSE Returned(SliceTo(
            SortResults([i \in 1..Len(candidates) |->
                ScoreCandidate(current_track, candidates[i], sequence, config)]),
            config.num_suggestions))

\* steps 3-7 for the filtered candidates; compute_compatibility divides by
\* the total of the weights for the first candidate it scores
rank_candidates(candidates, current_track, sequence, config) ==
    IF candidates = <<>> THEN Returned(<<>>)
    ELSE IF WeightTotal(config) = 0 THEN Raised("ZeroDivisionError")
    ELSE Returned(SliceTo(
            SortResults([i \in 1..Len(candidates) |->
                ScoreCandidate(current_track, candidates[i], sequence, config)]),
            config.num_suggestions))

\* SuggestionEngine(all_tracks).suggest(current_track, sequence, config)
suggest(all_tracks, current_track, sequence, config) ==
    rank_candidates(
        apply_filters(candidate_pool(all_tracks, current_track, sequence),
                      current_track, config),
        current_track, sequence, config)

(***************************************************************************)
(* The suggestion engine applied to bounded inputs                         *)
(***************************************************************************)

\* bound on the length of the sequence already in the set
MaxSeq == 2

\* self._all_tracks: empty, the library, a part of it, a list with a repeat
PoolLists == {<<>>, <<S1, S2, S3, S4, S5>>, <<S3, S1>>, <<S2, S5, S2>>}

\* a sequence of four tracks of one groove type
LongSequence == <<S1, S2, S5, S1>>

\* a fourth-on-the-floor track of cluster 1, and a sequence whose last two
\* tracks, last three tracks and last four tracks match the key, the cluster
\* and the groove of S5
S6 == WithUse(mkTrack(7, 126, 950, <<"9", "A">>, 900, 650, "four_on_floor", "balanced", 500, 500), Some(1), 0)

GrooveSequence == <<S1, S2, S6, S1>>

\* the five strategies without filters, and each filter under the default
\* strategy: [strategy, bpm_min, bpm_max, key_lock, groove_lock, exclude]
StrategiesAndFilters ==
    {<<s, None, None, FALSE, FALSE, {}>> : s \in SuggestionStrategy} \cup
    {<<"harmonic_flow", Some(100), Some(130), FALSE, FALSE, {}>>,
     <<"harmonic_flow", Some(200), None, FALSE, FALSE, {}>>,
     <<"harmonic_flow", None, None, TRUE, FALSE, {}>>,
     <<"harmonic_flow", None, None, FALSE, TRUE, {}>>,
     <<"harmonic_flow", None, None, FALSE, FALSE, {0, 1}>>}

\* [num_suggestions, diversity_bonus]
TopAndBonus == {<<8, 100>>, <<2, 0>>, <<1, 100>>, <<0, 100>>}

\* six weights that sum to zero
ZeroWeights == mkConfig(0, 0, 0, 0, 0, 0)

SuggestConfigs ==
    {mkSuggestionConfig(DefaultWeightFields, f[1], f[2], f[3], f[4], f[5], f[6],
                        n[1], n[2]) : f \in StrategiesAndFilters, n \in TopAndBonus}
    \cup
    {mkSuggestionConfig(ZeroWeights, "harmonic_flow", None, None, FALSE, g, {}, 8, 100)
        : g \in BOOLEAN}

SuggestInit ==
    /\ nodes = <<>>
    /\ edges = {}
    /\ op = NoOp
    /\ ret = Returned(<<>>)
    /\ nops = 0
    /\ \E pool \in PoolLists, current_track \in SuggestLibrary,
          sequence \in SeqsUpTo(SuggestLibrary, MaxSeq)
                        \cup {LongSequence, GrooveSequence},
          config \in SuggestConfigs :
            pf = [pc |-> "start", pool |-> pool, current_track |-> current_track,
                  sequence |-> sequence, config |-> config,
                  result |-> Returned(<<>>)]

Suggest ==
    /\ pf.pc = "start"
    /\ pf' = [pf EXCEPT !.pc = "suggest",
                        !.result = suggest(pf.pool, pf.current_track, pf.sequence,
                                           pf.config)]
    /\ UNCHANGED <<nodes, edges, op, ret, nops>>

SuggestNext == Suggest

SpecSuggest == SuggestInit /\ [][SuggestNext]_vars


(***************************************************************************)
(* Properties of the suggestion engine                                     *)
(***************************************************************************)

SequenceIds == {q.id : q \in Range(pf.sequence)}

\* the pool tracks that are neither excluded nor filtered out, in pool order
Survivors ==
    apply_filters(candidate_pool(pf.pool, pf.current_track, pf.sequence),
                  pf.current_track, pf.config)

\* the scored survivors, in pool order
ScoredSurvivors ==
    [i \in 1..Len(Survivors) |->
        ScoreCandidate(pf.current_track, Survivors[i], pf.sequence, pf.config)]

\* C11: no result that suggest returns has the id of the current track or
\* of a track of the sequence
C11_NoCurrentOrSequenceTrack ==
    (pf.pc = "suggest" /\ pf.result.exc = "none") =>
        \A k \in 1..Len(pf.result.value) :
            /\ pf.result.value[k].track_id # pf.current_track.id
            /\ pf.result.value[k].track_id \notin SequenceIds

\* suggest has returned results from a pool that holds the current track and
\* a track of the sequence, and more pool tracks were excluded than returned
C11_Witness ==
    /\ pf.pc = "suggest"
    /\ pf.result.exc = "none"
    /\ Len(pf.result.value) >= 2
    /\ \E i \in 1..Len(pf.pool) : pf.pool[i].id = pf.current_track.id
    /\ \E i \in 1..Len(pf.pool) :
            pf.pool[i].id \in SequenceIds /\ pf.pool[i].id # pf.current_track.id

\* C12: what suggest returns is a selection of the scored survivors, each
\* taken at most as often as it occurs, in non-increasing order of
\* final_score, of length min(num_suggestions, number of survivors), and no
\* survivor left out has a higher final_score than a returned one
C12_SortedTopN ==
    (pf.pc = "suggest" /\ pf.result.exc = "none") =>
        LET value == pf.result.value
        IN  /\ Len(value) <= pf.config.num_suggestions
            /\ Len(value) = Min(pf.config.num_suggestions, Len(Survivors))
            /\ \A i, j \in 1..Len(value) :
                    i < j => ~ScoreGreater(value[j], value[i])
            /\ \A k \in 1..Len(value) :
                    /\ value[k] \in Range(ScoredSurvivors)
                    /\ Count(value, value[k]) <= Count(ScoredSurvivors, value[k])
            /\ \A i \in 1..Len(ScoredSurvivors) :
                    Count(value, ScoredSurvivors[i])
                        < Count(ScoredSurvivors, ScoredSurvivors[i])
                    => \A k \in 1..Len(value) :
                            ~ScoreGreater(ScoredSurvivors[i], value[k])

\* suggest has returned two results with different final scores and has left
\* out a survivor, and the survivors were not in descending order in the pool
C12_Witness ==
    /\ pf.pc = "suggest"
    /\ pf.result.exc = "none"
    /\ Len(pf.result.value) = 2
    /\ Len(Survivors) > 2
    /\ ScoreGreater(pf.result.value[1], pf.result.value[2])
    /\ \E i, j \in 1..Len(ScoredSurvivors) :
            i < j /\ ScoreGreater(ScoredSurvivors[j], ScoredSurvivors[i])

\* C13: suggest returns the empty list, and does not raise, when the pool is
\* empty or no pool track survives the exclusion and the filters
C13_EmptyWhenNothingLeft ==
    (pf.pc = "suggest" /\ (pf.pool = <<>> \/ Survivors = <<>>)) =>
        pf.result = Returned(<<>>)

\* suggest has returned the empty list for a pool whose tracks pass the
\* exclusion but not the filter, under weights that sum to zero
C13_Witness ==
    /\ pf.pc = "suggest"
    /\ pf.result = Returned(<<>>)
    /\ candidate_pool(pf.pool, pf.current_track, pf.sequence) # <<>>
    /\ Survivors = <<>>
    /\ pf.config.groove_lock
    /\ WeightTotal(pf.config) = 0


(***************************************************************************)
(* Set generator (suggestions/set_generator.py)                            *)
(*                                                                         *)
(* Units.  Durations are whole seconds.  A curve point is <<x, y>> with    *)
(* the position x in twentieths and the energy y in hundredths.  A target  *)
(* energy is the fraction num / den of thousandths.  A candidate's score   *)
(* is an integer number of 1 / (500000 * den).                             *)
(***************************************************************************)

\* a Track with its duration_seconds
WithDuration(track, duration_seconds) ==
    [id |-> track.id, bpm |-> track.bpm, bpm_stability |-> track.bpm_stability,
     key |-> track.key, key_confidence |-> track.key_confidence,
     energy |-> track.energy, groove_type |-> track.groove_type,
     frequency_weight |-> track.frequency_weight,
     mix_in_score |-> track.mix_in_score, mix_out_score |-> track.mix_out_score,
     duration_seconds |-> duration_seconds]

\* a sixth track, at energy 0.31
T6 == mkTrack(6, 150, 700, <<"3", "B">>, 500, 310, "breakbeat", "bright", 250, 250)

D1 == WithDuration(T1, 30)
D2 == WithDuration(T2, 30)
D3 == WithDuration(T6, 52)
D4 == WithDuration(T4, 30)
D5 == WithDuration(T5, 30)

\* a breakbeat track in the key of the first, at energy 0.55
D6 == WithDuration(mkTrack(8, 126, 950, <<"8", "A">>, 500, 550, "breakbeat", "balanced", 250, 750), 30)

SetLibrary == {D1, D2, D3, D4, D5}

EnergyProfile ==
    {"warm_up_peak_cool", "high_energy", "chill_lounge", "rollercoaster", "custom"}

ENERGY_CURVES ==
    [p \in EnergyProfile \ {"custom"} |->
        CASE p = "warm_up_peak_cool" -> <<<<0, 40>>, <<6, 65>>, <<14, 90>>, <<20, 50>>>>
          [] p = "high_energy" -> <<<<0, 70>>, <<10, 85>>, <<20, 75>>>>
          [] p = "chill_lounge" -> <<<<0, 30>>, <<10, 45>>, <<20, 35>>>>
          [] p = "rollercoaster" ->
                <<<<0, 40>>, <<5, 90>>, <<10, 50>>, <<15, 85>>, <<20, 40>>>>]

\* SetBuilderConfig
mkSetBuilderConfig(start_track_id, target_minutes, energy_profile, bpm_tolerance, custom_energy_points) ==
    [start_track_id |-> start_track_id, target_minutes |-> target_minutes,
     energy_profile |-> energy_profile, bpm_tolerance |-> bpm_tolerance,
     custom_energy_points |-> custom_energy_points]

\* the curve generate follows: the custom points when the profile is CUSTOM
\* and points are given, else the built-in curve, WARM_UP_PEAK_COOL when the
\* profile has none
CurveOf(config) ==
    IF config.energy_profile = "custom" /\ config.custom_energy_points # <<>>
    THEN config.custom_energy_points
    ELSE IF config.energy_profile \in DOMAIN ENERGY_CURVES
         THEN ENERGY_CURVES[config.energy_profile]
         ELSE ENERGY_CURVES["warm_up_peak_cool"]

\* _camelot_distance of set_generator.py for keys that int() accepts
set_camelot_distance(key_a, key_b) ==
    IF key_a = key_b THEN 0
    ELSE IF parse_camelot(key_a).num = parse_camelot(key_b).num
            /\ parse_camelot(key_a).mode # parse_camelot(key_b).mode THEN 1
    ELSE IF parse_camelot(key_a).mode = parse_camelot(key_b).mode
         THEN camelot_distance(parse_camelot(key_a).num, parse_camelot(key_b).num)
    ELSE camelot_distance(parse_camelot(key_a).num, parse_camelot(key_b).num) + 1

\* the value on the segment from point p0 to point p1 at position d / tgt
OnSegment(p0, p1, d, tgt) ==
    IF p1[1] = p0[1] THEN [num |-> 10 * p0[2], den |-> 1]
    ELSE [num |-> 10 * (p0[2] * (p1[1] - p0[1]) * tgt
                        + (20 * d - p0[1] * tgt) * (p1[2] - p0[2])),
          den |-> (p1[1] - p0[1]) * tgt]

\* the first segment i with x0 <= position <= x1, or 0
FirstSegment(curve, d, tgt) ==
    IF \E i \in 1..(Len(curve) - 1) :
            curve[i][1] * tgt <= 20 * d /\ 20 * d <= curve[i + 1][1] * tgt
    THEN CHOOSE i \in 1..(Len(curve) - 1) :
            /\ curve[i][1] * tgt <= 20 * d /\ 20 * d <= curve[i + 1][1] * tgt
            /\ \A k \in 1..(i - 1) :
                    ~(curve[k][1] * tgt <= 20 * d /\ 20 * d <= curve[k + 1][1] * tgt)
    ELSE 0

\* _interpolate_energy(curve, d / tgt) for tgt > 0
interpolate_energy(curve, d, tgt) ==
    IF curve = <<>> THEN [num |-> 500, den |-> 1]
    ELSE IF 20 * d <= curve[1][1] * tgt THEN [num |-> 10 * curve[1][2], den |-> 1]
    ELSE IF 20 * d >= curve[Len(curve)][1] * tgt
         THEN [num |-> 10 * curve[Len(curve)][2], den |-> 1]
    ELSE IF FirstSegment(curve, d, tgt) = 0
         THEN [num |-> 10 * curve[Len(curve)][2], den |-> 1]
    ELSE OnSegment(curve[FirstSegment(curve, d, tgt)],
                   curve[FirstSegment(curve, d, tgt) + 1], d, tgt)

\* abs(t.spotify_style.energy - target) * target.den
EnergyDiff(t, target) == Abs(t.energy * target.den - target.num)

\* min(tracks, key=energy diff): the first track of the list with the
\* smallest key
ClosestEnergy(tracks, target) ==
    tracks[CHOOSE i \in 1..Len(tracks) :
              /\ \A k \in 1..Len(tracks) :
                    EnergyDiff(tracks[i], target) <= EnergyDiff(tracks[k], target)
              /\ \A k \in 1..(i - 1) :
                    EnergyDiff(tracks[k], target) > EnergyDiff(tracks[i], target)]

\* abs(bpm_ratio - 1.0) > config.bpm_tolerance, the tolerance in thousandths
FailsGuardrail(current, candidate, bpm_tolerance) ==
    1000 * (Max(current.bpm, candidate.bpm) - Min(current.bpm, candidate.bpm))
        > bpm_tolerance * Min(current.bpm, candidate.bpm)

\* key_bonus in tenths
KeyBonus(key_dist) == IF key_dist <= 1 THEN 10 ELSE IF key_dist = 2 THEN 7 ELSE 4

\* compat * 0.4 + energy_fit * 0.4 + key_bonus * 0.2, times 500000 * den
CombinedScore(compat, energy_diff, key_dist, den) ==
    2 * compat * den + 200 * Max(0, 1000 * den - 2 * energy_diff)
    + KeyBonus(key_dist) * 10000 * den

CandidateScore(current, candidate, target, suggestion_config) ==
    CombinedScore(_compat(current, candidate, suggestion_config),
                  EnergyDiff(candidate, target),
                  set_camelot_distance(current.key, candidate.key),
                  target.den)


\* the ids of the tracks of a list
IdsOf(tracks) == {tracks[i].id : i \in 1..Len(tracks)}

\* [t for t in available if t.id not in used_ids]
Unused(available, used_ids) ==
    SelectSeq(available, LAMBDA t : t.id \notin used_ids)

\* the first candidate the guardrail lets through is taken
BestScored_first_passing(current, passing, target, suggestion_config) == passing[1]

\* the first track of the list with the highest combined score; every score
\* is above the initial best_score of -1.0
BestScored(current, passing, target, suggestion_config) ==
    passing[CHOOSE i \in 1..Len(passing) :
        /\ \A k \in 1..Len(passing) :
              CandidateScore(current, passing[k], target, suggestion_config)
                  <= CandidateScore(current, passing[i], target, suggestion_config)
        /\ \A k \in 1..(i - 1) :
              CandidateScore(current, passing[k], target, suggestion_config)
                  < CandidateScore(current, passing[i], target, suggestion_config)]

\* the for loop over the candidates and the fallback; passing are the
\* candidates the BPM guardrail lets through
PickNext(current, candidates, passing, target, suggestion_config) ==
    IF passing = <<>> THEN Returned(ClosestEnergy(candidates, target))
    ELSE IF suggestion_config # NoConfig /\ WeightTotal(suggestion_config) = 0
    THEN Raised("ZeroDivisionError")
    ELSE Returned(BestScored(current, passing, target, suggestion_config))

\* used_ids is not updated
Appended_unrecorded(st, picked) ==
    IF picked.exc # "none"
    THEN [st EXCEPT !.exc = picked.exc, !.done = TRUE]
    ELSE [st EXCEPT !.sequence = Append(st.sequence, picked.value),
                    !.total_duration = st.total_duration
                                       + picked.value.duration_seconds - 8]

\* sequence.append(best_track); used_ids.add(...); total_duration += ...
\* st = [sequence, used_ids, total_duration, exc, done]
Appended(st, picked) ==
    IF picked.exc # "none"
    THEN [st EXCEPT !.exc = picked.exc, !.done = TRUE]
    ELSE [st EXCEPT !.sequence = Append(st.sequence, picked.value),
                    !.used_ids = st.used_ids \cup {picked.value.id},
                    !.total_duration = st.total_duration
                                       + picked.value.duration_seconds - 8]

\* one pass of the while loop body, given the candidates and the target
LoopBody(st, candidates, target, config, suggestion_config) ==
    IF candidates = <<>> THEN [st EXCEPT !.done = TRUE]
    ELSE Appended(st,
            PickNext(st.sequence[Len(st.sequence)], candidates,
                     SelectSeq(candidates,
                        LAMBDA c : ~FailsGuardrail(st.sequence[Len(st.sequence)], c,
                                                   config.bpm_tolerance)),
                     target, suggestion_config))

RECURSIVE generate_loop(_, _, _, _, _, _)
generate_loop(st, available, curve, target_seconds, config, suggestion_config) ==
    IF st.done \/ ~(st.total_duration < target_seconds
                    /\ Cardinality(st.used_ids) < Len(available))
    THEN st
    ELSE generate_loop(
            LoopBody(st, Unused(available, st.used_ids),
                     interpolate_energy(curve, st.total_duration, target_seconds),
                     config, suggestion_config),
            available, curve, target_seconds, config, suggestion_config)

\* the first track of the pool with the wanted id, or NoTrack
FindById(available, start_track_id) ==
    IF start_track_id # None /\ start_track_id[1] \in IdsOf(available)
    THEN available[CHOOSE i \in 1..Len(available) :
                      /\ available[i].id = start_track_id[1]
                      /\ \A k \in 1..(i - 1) : available[k].id # start_track_id[1]]
    ELSE NoTrack

\* the start track: the one asked for, else the closest to the target at 0.0
StartTrack(available, curve, found) ==
    IF found # NoTrack THEN found
    ELSE ClosestEnergy(available, interpolate_energy(curve, 0, 1))

\* the state when the while loop is entered
LoopStart(start) ==
    [sequence |-> <<start>>, used_ids |-> {start.id},
     total_duration |-> start.duration_seconds, exc |-> "none", done |-> FALSE]

\* the sequence at the end of the while loop, for a pool that is not empty
greedy_set(config, all_tracks, suggestion_config) ==
    generate_loop(
        LoopStart(StartTrack(all_tracks, CurveOf(config),
                             FindById(all_tracks, config.start_track_id))),
        all_tracks, CurveOf(config), config.target_minutes * 60,
        config, suggestion_config)

MAX_2OPT_ITERATIONS == 500

\* optimal_order with its exception: the first _compat call divides by the
\* sum of the weights
optimal_order_call(tracks, start, config, max_2opt_iterations) ==
    IF Len(tracks) >= 2 /\ config # NoConfig /\ WeightTotal(config) = 0
    THEN Raised("ZeroDivisionError")
    ELSE Returned(optimal_order(tracks, start, config, max_2opt_iterations))

\* the except clause is missing: the exception leaves generate
Caught_reraised(sequence, refined) ==
    IF refined.exc # "none" THEN refined ELSE Returned(refined.value)

\* try: sequence = optimal_order(...) except Exception: log
Caught(sequence, refined) ==
    IF refined.exc # "none" THEN Returned(sequence) ELSE Returned(refined.value)

\* optimal_order is called with start=None
Refined_without_start(sequence, suggestion_config) ==
    IF Len(sequence) >= 4
    THEN Caught(sequence,
                optimal_order_call(sequence, NoTrack, suggestion_config,
                                   MAX_2OPT_ITERATIONS))
    ELSE Returned(sequence)

\* the 2-opt refinement of the greedy sequence
Refined(sequence, suggestion_config) ==
    IF Len(sequence) >= 4
    THEN Caught(sequence,
                optimal_order_call(sequence, sequence[1], suggestion_config,
                                   MAX_2OPT_ITERATIONS))
    ELSE Returned(sequence)

\* what follows the while loop
AfterLoop(st, suggestion_config) ==
    IF st.exc # "none" THEN Raised(st.exc) ELSE Refined(st.sequence, suggestion_config)

generate(config, all_tracks, suggestion_config) ==
    IF all_tracks = <<>> THEN Returned(<<>>)
    ELSE AfterLoop(greedy_set(config, all_tracks, suggestion_config),
                   suggestion_config)


(***************************************************************************)
(* The set generator as a state machine: one call of generate              *)
(***************************************************************************)

\* bound on target_minutes
MaxMinutes == 2

SetPools ==
    {<<>>, <<D1>>, <<D1, D2, D3>>, <<D1, D2, D3, D4, D5>>, <<D4, D2, D5, D1>>,
     <<D2, D1, D2, D5, D4>>, <<D4, D5, D6, D1>>}

\* no start id, the ids of three tracks, and an id that no track has
StartIds == {None, Some(1), Some(4), Some(6), Some(9)}

CustomPoints == <<<<0, 80>>, <<8, 80>>, <<20, 30>>>>

ProfilesAndPoints ==
    {<<p, <<>>>> : p \in EnergyProfile} \cup {<<"custom", CustomPoints>>}

\* bpm_tolerance in thousandths
Tolerances == {0, 20, 2000}

SetBuilderConfigs ==
    {mkSetBuilderConfig(s, m, pp[1], tol, pp[2]) :
        s \in StartIds, m \in 0..MaxMinutes, pp \in ProfilesAndPoints,
        tol \in Tolerances}

SetSuggestionConfigs == {NoConfig, DefaultWeightFields, ZeroWeights}

SetInit ==
    /\ nodes = <<>>
    /\ edges = {}
    /\ op = NoOp
    /\ ret = Returned(<<>>)
    /\ nops = 0
    /\ \E config \in SetBuilderConfigs, all_tracks \in SetPools,
          suggestion_config \in SetSuggestionConfigs :
            pf = [pc |-> "start", config |-> config, all_tracks |-> all_tracks,
                  suggestion_config |-> suggestion_config,
                  sequence |-> <<>>, result |-> Returned(<<>>)]

\* the local variable sequence when the while loop is left
GreedySequence(config, all_tracks, suggestion_config) ==
    IF all_tracks = <<>> THEN <<>>
    ELSE greedy_set(config, all_tracks, suggestion_config).sequence

\* pf.sequence is the sequence built by the while loop, pf.result what
\* generate returns or raises
Generate ==
    /\ pf.pc = "start"
    /\ pf' = [pf EXCEPT !.pc = "generate",
                        !.sequence = GreedySequence(pf.config, pf.all_tracks,
                                                    pf.suggestion_config),
                        !.result = generate(pf.config, pf.all_tracks,
                                            pf.suggestion_config)]
    /\ UNCHANGED <<nodes, edges, op, ret, nops>>

SetNext == Generate

SpecSet == SetInit /\ [][SetNext]_vars


(***************************************************************************)
(* Properties of the set generator                                         *)
(***************************************************************************)

\* generate has returned a list
GenerateReturned == pf.pc = "generate" /\ pf.result.exc = "none"

\* the target energy at progress 0 of the curve generate follows
TargetAtStart == interpolate_energy(CurveOf(pf.config), 0, 1)

\* the start id is the id of a track of the pool
StartInPool ==
    /\ pf.config.start_track_id # None
    /\ pf.config.start_track_id[1] \in IdsOf(pf.all_tracks)

\* the Sequence Optimizer raises on the sequence built by the while loop
OptimizerRaises ==
    optimal_order_call(pf.sequence, pf.sequence[1], pf.suggestion_config,
                       MAX_2OPT_ITERATIONS).exc # "none"

\* C14: the list generate returns has no track id twice and holds only
\* tracks of the pool, and it is empty exactly when the pool is empty.
C14_SetFromPoolNoDuplicates ==
    GenerateReturned =>
        /\ \A i, k \in 1..Len(pf.result.value) :
                pf.result.value[i].id = pf.result.value[k].id => i = k
        /\ \A i \in 1..Len(pf.result.value) :
                \E k \in 1..Len(pf.all_tracks) : pf.result.value[i] = pf.all_tracks[k]
        /\ (pf.result.value = <<>>) <=> (pf.all_tracks = <<>>)

\* a pool that lists one track twice gives a set with every track once
C14_Witness ==
    /\ GenerateReturned
    /\ Len(pf.all_tracks) = 5
    /\ Cardinality(IdsOf(pf.all_tracks)) = 4
    /\ Len(pf.result.value) = 4

\* C15: a start id found in the pool makes that track the first of the
\* returned set, also when the set has 4 or more tracks and was reordered;
\* otherwise the while loop starts from a track of the pool whose energy is
\* closest to the curve's target at progress 0.
C15_StartTrackFirst ==
    /\ (GenerateReturned /\ StartInPool) =>
            pf.result.value[1].id = pf.config.start_track_id[1]
    /\ (pf.pc = "generate" /\ pf.all_tracks # <<>> /\ ~StartInPool) =>
            /\ \E k \in 1..Len(pf.all_tracks) : pf.sequence[1] = pf.all_tracks[k]
            /\ \A k \in 1..Len(pf.all_tracks) :
                    EnergyDiff(pf.sequence[1], TargetAtStart)
                        <= EnergyDiff(pf.all_tracks[k], TargetAtStart)

\* the start track is not the highest-energy track, and the optimizer has
\* changed the order of a set of 4 or more tracks
C15_Witness ==
    /\ GenerateReturned
    /\ StartInPool
    /\ Len(pf.result.value) >= 4
    /\ pf.result.value # pf.sequence
    /\ \E k \in 1..Len(pf.all_tracks) :
            pf.all_tracks[k].energy > pf.result.value[1].energy
    /\ pf.result.value[1].id = pf.config.start_track_id[1]

\* C16: when the Sequence Optimizer raises on a built sequence of 4 or more
\* tracks, generate returns that sequence; a built sequence of fewer than 4
\* tracks is returned as built.
C16_RefinementFailureFallsBack ==
    (pf.pc = "generate" /\ pf.all_tracks # <<>>
        /\ greedy_set(pf.config, pf.all_tracks, pf.suggestion_config).exc = "none") =>
        /\ (Len(pf.sequence) >= 4 /\ OptimizerRaises) =>
                pf.result = Returned(pf.sequence)
        /\ Len(pf.sequence) < 4 => pf.result = Returned(pf.sequence)

\* the optimizer raised on a sequence of 4 or more tracks
C16_Witness ==
    /\ pf.pc = "generate"
    /\ Len(pf.sequence) >= 4
    /\ greedy_set(pf.config, pf.all_tracks, pf.suggestion_config).exc = "none"
    /\ OptimizerRaises
    /\ pf.result = Returned(pf.sequence)


(***************************************************************************)
(* Vibe-island clustering (graph/clustering.py)                            *)
(*                                                                         *)
(* The labels DBSCAN computes are an input: one integer >= -1 per track.   *)
(* An average is the pair [sum, count].  The centroid, a mean of numpy     *)
(* vectors, is left out of the Cluster record.                             *)
(***************************************************************************)

\* the positions of the list whose label is cluster_id, ascending
RECURSIVE LabelledFrom(_, _, _)
LabelledFrom(labels, cluster_id, i) ==
    IF i > Len(labels) THEN <<>>
    ELSE IF labels[i] = cluster_id
         THEN <<i>> \o LabelledFrom(labels, cluster_id, i + 1)
         ELSE LabelledFrom(labels, cluster_id, i + 1)

\* cluster_map[cluster_id]: the tracks with that label, in list order
ClusterTracksList(tracks, positions) ==
    [k \in 1..Len(positions) |-> tracks[positions[k]]]

\* the keys of cluster_map; the test label_int >= 0 is missing
cluster_map_keys_with_noise(labels) == Range(labels)

\* the keys of cluster_map
cluster_map_keys(labels) == {l \in Range(labels) : l >= 0}

\* sorted(...): the elements of a set of integers in ascending order
RECURSIVE Sorted(_)
Sorted(s) ==
    IF s = {} THEN <<>>
    ELSE <<CHOOSE x \in s : \A y \in s : x <= y>>
         \o Sorted(s \ {CHOOSE x \in s : \A y \in s : x <= y})

\* the number of times v occurs in values
Occurrences(values, v) == Cardinality({i \in 1..Len(values) : values[i] = v})

\* Counter(values).most_common(1)[0][0]: the first value met among the most
\* frequent ones
_mode(values) ==
    IF values = <<>> THEN "unknown"
    ELSE values[CHOOSE i \in 1..Len(values) :
            /\ \A k \in 1..Len(values) :
                    Occurrences(values, values[k]) <= Occurrences(values, values[i])
            /\ \A k \in 1..(i - 1) :
                    Occurrences(values, values[k]) < Occurrences(values, values[i])]

RECURSIVE SumOf(_)
SumOf(values) == IF values = <<>> THEN 0 ELSE Head(values) + SumOf(Tail(values))

\* Cluster(...) for one entry of cluster_map
mkCluster(cluster_id, cluster_tracks_list) ==
    [id |-> cluster_id,
     track_ids |-> [k \in 1..Len(cluster_tracks_list) |-> cluster_tracks_list[k].id],
     avg_bpm |-> [sum |-> SumOf([k \in 1..Len(cluster_tracks_list) |->
                                    cluster_tracks_list[k].bpm]),
                  count |-> Len(cluster_tracks_list)],
     avg_energy |-> [sum |-> SumOf([k \in 1..Len(cluster_tracks_list) |->
                                       cluster_tracks_list[k].energy]),
                     count |-> Len(cluster_tracks_list)],
     dominant_key |-> _mode([k \in 1..Len(cluster_tracks_list) |->
                                cluster_tracks_list[k].key]),
     dominant_groove |-> _mode([k \in 1..Len(cluster_tracks_list) |->
                                   cluster_tracks_list[k].groove_type]),
     dominant_frequency_weight |->
        _mode([k \in 1..Len(cluster_tracks_list) |->
                  cluster_tracks_list[k].frequency_weight]),
     track_count |-> Len(cluster_tracks_list)]

\* track.cluster_id = label_int if label_int >= 0 else None
Relabelled(tracks, labels) ==
    [i \in 1..Len(tracks) |->
        [tracks[i] EXCEPT !.cluster_id = IF labels[i] >= 0 THEN Some(labels[i])
                                         ELSE None]]

\* the Cluster objects, for the keys of cluster_map in ascending order
BuildClusters(tracks, labels, keys) ==
    [k \in 1..Len(keys) |->
        mkCluster(keys[k], ClusterTracksList(tracks, LabelledFrom(labels, keys[k], 1)))]

\* cluster_tracks: the tracks after the call and the list returned
cluster_tracks(tracks, labels, min_samples) ==
    IF Len(tracks) < min_samples THEN [tracks |-> tracks, clusters |-> <<>>]
    ELSE [tracks |-> Relabelled(tracks, labels),
          clusters |-> BuildClusters(Relabelled(tracks, labels), labels,
                                     Sorted(cluster_map_keys(labels)))]

(***************************************************************************)
(* Clustering as a state machine: one call of cluster_tracks               *)
(***************************************************************************)

\* bound on the labels DBSCAN assigns
MaxLabel == 2

ClusterInputs ==
    {<<S1, S2>>, <<S1, S2, S3>>, <<S4, S3, S2, S1>>, <<S5, S4, S3, S2, S1>>}

MinSamples == {2, 3}

ClusterInit ==
    /\ nodes = <<>>
    /\ edges = {}
    /\ op = NoOp
    /\ ret = Returned(<<>>)
    /\ nops = 0
    /\ \E tracks \in ClusterInputs, min_samples \in MinSamples :
        \E labels \in [1..Len(tracks) -> (-1)..MaxLabel] :
            pf = [pc |-> "start", tracks |-> tracks, labels |-> labels,
                  min_samples |-> min_samples, clusters |-> <<>>]

ClusterTracks ==
    /\ pf.pc = "start"
    /\ pf' = [pf EXCEPT !.pc = "cluster_tracks",
                        !.tracks = cluster_tracks(pf.tracks, pf.labels,
                                                  pf.min_samples).tracks,
                        !.clusters = cluster_tracks(pf.tracks, pf.labels,
                                                    pf.min_samples).clusters]
    /\ UNCHANGED <<nodes, edges, op, ret, nops>>

ClusterNext == ClusterTracks

SpecCluster == ClusterInit /\ [][ClusterNext]_vars


(***************************************************************************)
(* Properties of the clustering                                            *)
(***************************************************************************)

\* C17: after cluster_tracks, a track whose cluster_id is None is in no
\* returned Cluster, a track listed in a Cluster has that Cluster's id, which
\* is >= 0, as its cluster_id, no track is listed in two Clusters, and
\* track_count is the length of track_ids.
C17_ClustersMatchClusterIds ==
    pf.pc = "cluster_tracks" =>
        \A c \in 1..Len(pf.clusters) :
            /\ pf.clusters[c].id >= 0
            /\ pf.clusters[c].track_count = Len(pf.clusters[c].track_ids)
            /\ \A i \in 1..Len(pf.tracks) :
                /\ pf.tracks[i].cluster_id = None =>
                        pf.tracks[i].id \notin Range(pf.clusters[c].track_ids)
                /\ pf.tracks[i].id \in Range(pf.clusters[c].track_ids) =>
                        pf.tracks[i].cluster_id = Some(pf.clusters[c].id)
            /\ \A c2 \in 1..Len(pf.clusters) :
                    c2 # c => Range(pf.clusters[c].track_ids)
                              \cap Range(pf.clusters[c2].track_ids) = {}

\* two Clusters were returned, one of them with two tracks, and one track
\* that had a cluster_id before the call is noise after it
C17_Witness ==
    /\ pf.pc = "cluster_tracks"
    /\ Len(pf.clusters) = 2
    /\ \E c \in 1..2 : pf.clusters[c].track_count = 2
    /\ \E i \in 1..Len(pf.tracks) :
            /\ pf.labels[i] = -1
            /\ pf.tracks[i].cluster_id = None
            /\ pf.tracks[i].id = S3.id


(***************************************************************************)
(* Validation at construction (db/models.py) and the scorer behind it      *)
(***************************************************************************)

Digits == {"0", "1", "2", "3", "4", "5", "6", "7", "8", "9"}

\* key: Field(pattern=r"^\d{1,2}[AB]$")
KeyPattern(key) ==
    /\ Len(key) \in {2, 3}
    /\ \A i \in 1..(Len(key) - 1) : key[i] \in Digits
    /\ key[Len(key)] \in {"A", "B"}

\* Field(ge=0.0, le=1.0), in thousandths
UnitField(x) == 0 <= x /\ x <= 1000

\* DJMetrics(...): the fields pydantic validates
DJMetricsValid(raw) ==
    /\ raw.bpm > 0
    /\ UnitField(raw.bpm_stability)
    /\ KeyPattern(raw.key)
    /\ UnitField(raw.key_confidence)
    /\ UnitField(raw.mix_in_score)
    /\ UnitField(raw.mix_out_score)

\* SpotifyStyleMetrics(...): the field of it that the model's tracks carry
SpotifyStyleMetricsValid(raw) == UnitField(raw.energy)

\* the Track built from raw analysis values, or the validation error
construct_track(raw) ==
    IF DJMetricsValid(raw) /\ SpotifyStyleMetricsValid(raw) THEN Returned(raw)
    ELSE Raised("ValidationError")

\* compute_compatibility with its exception: normalized_weights divides by
\* the sum of the weights
compute_compatibility_call(track_a, track_b, config) ==
    IF config # NoConfig /\ WeightTotal(config) = 0 THEN Raised("ZeroDivisionError")
    ELSE Returned([aggregate |-> compute_compatibility(track_a, track_b, config).aggregate,
                   scores |-> EdgeScores(track_a, track_b),
                   weights |-> WeightsOf(config)])

\* Edge(compatibility_score=score, ...), compatibility_score: ge=0.0, le=1.0,
\* the score in 1/100000
construct_edge(track_a, track_b, compat) ==
    IF compat.exc # "none" THEN compat
    ELSE IF 0 <= compat.value.aggregate /\ compat.value.aggregate <= 100000
    THEN Returned(mkEdge(track_a.id, track_b.id, compat.value.aggregate,
                         compat.value.scores, FALSE))
    ELSE Raised("ValidationError")

(***************************************************************************)
(* Construction and scoring as a state machine: two tracks are built from  *)
(* raw values, then scored against each other                              *)
(***************************************************************************)

RawKeys ==
    {<<"8", "A">>, <<"9", "A">>, <<"1", "0", "A">>, <<"8", "B">>, <<"9", "B">>,
     <<"1", "2", "A">>, <<"1", "A">>, <<"1", "1", "A">>, <<"1", "B">>, <<"5", "A">>,
     <<"0", "8", "A">>, <<"1", "3", "A">>, <<"0", "A">>,
     <<"A">>, <<"8", "C">>, <<"1", "2", "3", "A">>, <<"8">>}

\* a track's raw values: T1 with another id and key
RawTrack(id, key) ==
    mkTrack(id, 128, 950, key, 850, 820, "four_on_floor", "bass_heavy", 500, 750)

\* the ways one raw value is put out of range
Defects ==
    {"none", "bpm_zero", "bpm_negative", "key_confidence_high", "energy_negative",
     "mix_in_score_high", "bpm_stability_negative", "mix_out_score_negative",
     "key_confidence_low"}

WithDefect(raw, defect) ==
    CASE defect = "none" -> raw
      [] defect = "bpm_zero" -> [raw EXCEPT !.bpm = 0]
      [] defect = "bpm_negative" -> [raw EXCEPT !.bpm = -128]
      [] defect = "key_confidence_high" -> [raw EXCEPT !.key_confidence = 1001]
      [] defect = "energy_negative" -> [raw EXCEPT !.energy = -1]
      [] defect = "mix_in_score_high" -> [raw EXCEPT !.mix_in_score = 1500]
      [] defect = "bpm_stability_negative" -> [raw EXCEPT !.bpm_stability = -1]
      [] defect = "mix_out_score_negative" -> [raw EXCEPT !.mix_out_score = -250]
      [] defect = "key_confidence_low" -> [raw EXCEPT !.key_confidence = 500]

NegativeWeight == mkConfig(-30, 10, 0, 0, 0, 0)

\* the configs SuggestionConfig(...) accepts: its weights are plain floats
ScoreConfigs == {NoConfig, DefaultWeightFields, MixOnly, ZeroWeights, NegativeWeight}

NotBuilt == Raised("not constructed")

ScoreInit ==
    /\ nodes = <<>>
    /\ edges = {}
    /\ op = NoOp
    /\ ret = Returned(<<>>)
    /\ nops = 0
    /\ \E key_a \in RawKeys, key_b \in RawKeys, defect \in Defects,
          config \in ScoreConfigs :
            pf = [pc |-> "start",
                  raw_a |-> WithDefect(RawTrack(1, key_a), defect),
                  raw_b |-> RawTrack(2, key_b),
                  config |-> config,
                  track_a |-> NotBuilt, track_b |-> NotBuilt,
                  harmonic_ab |-> 0, harmonic_ba |-> 0,
                  compat |-> NotBuilt, edge |-> NotBuilt]

\* Track(...) for both sets of raw values
ConstructTracks ==
    /\ pf.pc = "start"
    /\ pf' = [pf EXCEPT !.pc = "constructed",
                        !.track_a = construct_track(pf.raw_a),
                        !.track_b = construct_track(pf.raw_b)]
    /\ UNCHANGED <<nodes, edges, op, ret, nops>>

\* the scorer and compute_edges' Edge(...) on two tracks that exist
ScoreTracks ==
    /\ pf.pc = "constructed"
    /\ pf.track_a.exc = "none"
    /\ pf.track_b.exc = "none"
    /\ pf' = [pf EXCEPT
                !.pc = "scored",
                !.harmonic_ab = harmonic_score(pf.track_a.value.key, pf.track_b.value.key,
                                               pf.track_a.value.key_confidence,
                                               pf.track_b.value.key_confidence),
                !.harmonic_ba = harmonic_score(pf.track_b.value.key, pf.track_a.value.key,
                                               pf.track_b.value.key_confidence,
                                               pf.track_a.value.key_confidence),
                !.compat = compute_compatibility_call(pf.track_a.value, pf.track_b.value,
                                                      pf.config),
                !.edge = construct_edge(pf.track_a.value, pf.track_b.value,
                            compute_compatibility_call(pf.track_a.value,
                                                       pf.track_b.value, pf.config))]
    /\ UNCHANGED <<nodes, edges, op, ret, nops>>

ScoreNext == ConstructTracks \/ ScoreTracks

SpecScore == ScoreInit /\ [][ScoreNext]_vars


(***************************************************************************)
(* Properties of validation and of the scorer                              *)
(***************************************************************************)

\* a number from 1 to 12 followed by 'A' or 'B'
CamelotKey(key) ==
    /\ Len(key) >= 2
    /\ \A i \in 1..(Len(key) - 1) : key[i] \in Digits
    /\ key[Len(key)] \in {"A", "B"}
    /\ ParseInt(SubSeq(key, 1, Len(key) - 1)) \in 1..12

\* the raw values are ones a Track may have
ValidMetrics(raw) ==
    /\ CamelotKey(raw.key)
    /\ raw.bpm > 0
    /\ UnitField(raw.bpm_stability)
    /\ UnitField(raw.key_confidence)
    /\ UnitField(raw.mix_in_score)
    /\ UnitField(raw.mix_out_score)
    /\ UnitField(raw.energy)

\* C18: constructing a Track's metrics raises a validation error whenever
\* the key is not a number from 1 to 12 followed by 'A' or 'B', the bpm is
\* not positive or a [0,1] field is out of range, and so the tracks the
\* scorer is given have none of these values.
C18_InvalidMetricsRejected ==
    /\ pf.pc # "start" =>
        /\ ~ValidMetrics(pf.raw_a) => pf.track_a.exc = "ValidationError"
        /\ ~ValidMetrics(pf.raw_b) => pf.track_b.exc = "ValidationError"
    /\ pf.pc = "scored" =>
        /\ ValidMetrics(pf.track_a.value)
        /\ ValidMetrics(pf.track_b.value)

\* the weights are the config's weights divided by their sum, or the defaults
NormalizedFrom(weights, config) ==
    IF config = NoConfig THEN weights = DEFAULT_WEIGHTS
    ELSE /\ weights.harmonic + weights.bpm + weights.energy + weights.groove
            + weights.frequency + weights.mix_quality = 100
         /\ weights.harmonic * WeightTotal(config) = 100 * config.harmonic_weight
         /\ weights.bpm * WeightTotal(config) = 100 * config.bpm_weight
         /\ weights.energy * WeightTotal(config) = 100 * config.energy_weight
         /\ weights.groove * WeightTotal(config) = 100 * config.groove_weight
         /\ weights.frequency * WeightTotal(config) = 100 * config.frequency_weight
         /\ weights.mix_quality * WeightTotal(config) = 100 * config.mix_quality_weight

\* C19: for two valid tracks and any accepted SuggestionConfig,
\* compute_compatibility returns; its weights are the config's weights
\* normalized to sum to 1 (the defaults without a config), its aggregate is
\* the weighted sum of the six sub-scores and lies in [0,1], and the Edge
\* built from it is valid.
C19_CompatibilityReturnsInUnitRange ==
    (pf.pc = "scored" /\ ValidMetrics(pf.raw_a) /\ ValidMetrics(pf.raw_b)) =>
        /\ pf.compat.exc = "none"
        /\ NormalizedFrom(pf.compat.value.weights, pf.config)
        /\ pf.compat.value.aggregate
                = Aggregate(pf.compat.value.scores, pf.compat.value.weights)
        /\ 0 <= pf.compat.value.aggregate
        /\ pf.compat.value.aggregate <= 100000
        /\ pf.edge.exc = "none"

\* the table of harmonic scores, by number, mode and circular distance
HarmonicTable(a, b) ==
    IF a.num = b.num /\ a.mode = b.mode THEN 1000
    ELSE IF a.num = b.num THEN 800
    ELSE IF a.mode = b.mode /\ camelot_distance(a.num, b.num) = 1 THEN 850
    ELSE IF a.mode = b.mode /\ camelot_distance(a.num, b.num) = 2 THEN 500
    ELSE IF a.mode # b.mode /\ camelot_distance(a.num, b.num) = 1 THEN 400
    ELSE 100

\* C20: for two keys that validation accepts and confidences >= 0.7,
\* harmonic_score is the table's value for the keys' numbers and modes, with
\* the distance wrapping at 12, and is the same in both directions.
C20_HarmonicScoreTable ==
    (pf.pc = "scored" /\ pf.track_a.value.key_confidence >= 700
        /\ pf.track_b.value.key_confidence >= 700) =>
        /\ pf.harmonic_ab = HarmonicTable(parse_camelot(pf.track_a.value.key),
                                          parse_camelot(pf.track_b.value.key))
        /\ pf.harmonic_ab = pf.harmonic_ba


(***************************************************************************)
(* The scorer in both directions: compute_compatibility(a, b, config) and  *)
(* then compute_compatibility(b, a, config)                                *)
(***************************************************************************)

\* a track with another groove type and frequency weight
WithTypes(track, groove_type, frequency_weight) ==
    [track EXCEPT !.groove_type = groove_type, !.frequency_weight = frequency_weight]

\* pairs of tracks: mix scores that differ by direction, and that do not
PairBases == {<<T1, T2>>, <<T1, T4>>, <<T3, T4>>, <<T2, T2>>}

PairInit ==
    /\ nodes = <<>>
    /\ edges = {}
    /\ op = NoOp
    /\ ret = Returned(<<>>)
    /\ nops = 0
    /\ \E base \in PairBases, groove_a \in GrooveTypes, groove_b \in GrooveTypes,
          freq_a \in FrequencyWeights, freq_b \in FrequencyWeights,
          config \in ScoreConfigs :
            pf = [pc |-> "start",
                  track_a |-> WithTypes(base[1], groove_a, freq_a),
                  track_b |-> WithTypes(base[2], groove_b, freq_b),
                  config |-> config,
                  compat_ab |-> NotBuilt, compat_ba |-> NotBuilt]

ScoreForward ==
    /\ pf.pc = "start"
    /\ pf' = [pf EXCEPT !.pc = "forward",
                        !.compat_ab = compute_compatibility_call(pf.track_a, pf.track_b,
                                                                 pf.config)]
    /\ UNCHANGED <<nodes, edges, op, ret, nops>>

ScoreBackward ==
    /\ pf.pc = "forward"
    /\ pf' = [pf EXCEPT !.pc = "both",
                        !.compat_ba = compute_compatibility_call(pf.track_b, pf.track_a,
                                                                 pf.config)]
    /\ UNCHANGED <<nodes, edges, op, ret, nops>>

PairNext == ScoreForward \/ ScoreBackward

SpecPair == PairInit /\ [][PairNext]_vars


(***************************************************************************)
(* Properties of the scorer in both directions                             *)
(***************************************************************************)

\* C21: the harmonic, bpm, energy, groove and frequency sub-scores are the
\* same in both directions; mix_quality is (mix_out of the source + mix_in
\* of the target) / 2, and the two aggregates differ exactly when the mix
\* weight is not zero and mix_out_a + mix_in_b differs from
\* mix_out_b + mix_in_a.
C21_OnlyMixQualityIsDirectional ==
    pf.pc = "both" =>
        /\ pf.compat_ab.exc = pf.compat_ba.exc
        /\ pf.compat_ab.exc = "none" =>
            /\ pf.compat_ab.value.scores.harmonic = pf.compat_ba.value.scores.harmonic
            /\ pf.compat_ab.value.scores.bpm = pf.compat_ba.value.scores.bpm
            /\ pf.compat_ab.value.scores.energy = pf.compat_ba.value.scores.energy
            /\ pf.compat_ab.value.scores.groove = pf.compat_ba.value.scores.groove
            /\ pf.compat_ab.value.scores.frequency
                    = pf.compat_ba.value.scores.frequency
            /\ 2 * pf.compat_ab.value.scores.mix_quality
                    = pf.track_a.mix_out_score + pf.track_b.mix_in_score
            /\ 2 * pf.compat_ba.value.scores.mix_quality
                    = pf.track_b.mix_out_score + pf.track_a.mix_in_score
            /\ (pf.compat_ab.value.aggregate # pf.compat_ba.value.aggregate)
                <=> (/\ pf.compat_ab.value.weights.mix_quality # 0
                     /\ pf.track_a.mix_out_score + pf.track_b.mix_in_score
                            # pf.track_b.mix_out_score + pf.track_a.mix_in_score)

\* the groove pair is in the table in the other order only, and the
\* aggregates differ
C21_Witness ==
    /\ pf.pc = "both"
    /\ pf.compat_ab.exc = "none"
    /\ pf.track_a.groove_type = "straight"
    /\ pf.track_b.groove_type = "four_on_floor"
    /\ pf.track_a.frequency_weight = "bright"
    /\ pf.track_b.frequency_weight = "balanced"
    /\ pf.compat_ab.value.scores.groove = 700
    /\ pf.compat_ab.value.aggregate # pf.compat_ba.value.aggregate


(***************************************************************************)
(* The set generator step by step: one iteration of the while loop at a   *)
(* time                                                                    *)
(***************************************************************************)

\* pf.st holds the loop's variables, pf.before their values when the last
\* iteration began
GreedyInit ==
    /\ nodes = <<>>
    /\ edges = {}
    /\ op = NoOp
    /\ ret = Returned(<<>>)
    /\ nops = 0
    /\ \E config \in SetBuilderConfigs, all_tracks \in SetPools,
          suggestion_config \in SetSuggestionConfigs :
            pf = [pc |-> "start", config |-> config, all_tracks |-> all_tracks,
                  suggestion_config |-> suggestion_config,
                  st |-> <<>>, before |-> <<>>, result |-> Returned(<<>>)]

\* total_duration < target_seconds and len(used_ids) < len(available)
LoopCondition ==
    /\ pf.st.total_duration < pf.config.target_minutes * 60
    /\ Cardinality(pf.st.used_ids) < Len(pf.all_tracks)

\* an empty pool returns []; otherwise the start track is chosen and the
\* loop's variables are set
StartSet ==
    /\ pf.pc = "start"
    /\ pf' = IF pf.all_tracks = <<>>
             THEN [pf EXCEPT !.pc = "done", !.result = Returned(<<>>)]
             ELSE [pf EXCEPT !.pc = "loop",
                             !.st = LoopStart(StartTrack(pf.all_tracks, CurveOf(pf.config),
                                        FindById(pf.all_tracks, pf.config.start_track_id)))]
    /\ nops' = nops + 1
    /\ UNCHANGED <<nodes, edges, op, ret>>

\* one iteration of the while loop
GreedyStep ==
    /\ pf.pc = "loop"
    /\ ~pf.st.done
    /\ LoopCondition
    /\ pf' = [pf EXCEPT !.before = pf.st,
                        !.st = LoopBody(pf.st, Unused(pf.all_tracks, pf.st.used_ids),
                                        interpolate_energy(CurveOf(pf.config),
                                                           pf.st.total_duration,
                                                           pf.config.target_minutes * 60),
                                        pf.config, pf.suggestion_config)]
    /\ nops' = nops + 1
    /\ UNCHANGED <<nodes, edges, op, ret>>

\* the loop is left: its condition is false, it executed break, or an
\* exception propagates
FinishSet ==
    /\ pf.pc = "loop"
    /\ pf.st.done \/ ~LoopCondition
    /\ pf' = [pf EXCEPT !.pc = "done",
                        !.result = AfterLoop(pf.st, pf.suggestion_config)]
    /\ nops' = nops + 1
    /\ UNCHANGED <<nodes, edges, op, ret>>

GreedyNext == StartSet \/ GreedyStep \/ FinishSet

SpecGreedy == GreedyInit /\ [][GreedyNext]_vars

\* a step of generate: some action of GreedyNext is enabled exactly when
\* pf.pc is not "done", and every such action counts its step in nops
NextStep == pf.pc # "done" /\ nops' = nops + 1

\* generate runs to its end once called: it is straight-line code in one
\* thread, so a step that can be taken is taken.  WF_nops(NextStep) is
\* WF_vars(GreedyNext) under SpecGreedy.
SpecGreedyFair == SpecGreedy /\ WF_nops(NextStep)


(***************************************************************************)
(* Properties of the greedy construction                                   *)
(***************************************************************************)

\* the last iteration appended a track
StepAppended ==
    /\ pf.pc \in {"loop", "done"}
    /\ pf.before # <<>>
    /\ Len(pf.st.sequence) = Len(pf.before.sequence) + 1

\* the last track, the unused candidates and the target energy when the
\* last iteration began, and the track it appended
StepCurrent == pf.before.sequence[Len(pf.before.sequence)]

StepCandidates == SelectSeq(pf.all_tracks, LAMBDA t : t.id \notin pf.before.used_ids)

StepTarget ==
    interpolate_energy(CurveOf(pf.config), pf.before.total_duration,
                       pf.config.target_minutes * 60)

StepPicked == pf.st.sequence[Len(pf.st.sequence)]

\* |max(bpm) / min(bpm) - 1| <= bpm_tolerance relative to the last track
WithinTolerance(t) ==
    1000 * Abs(StepCurrent.bpm - t.bpm)
        <= pf.config.bpm_tolerance * Min(StepCurrent.bpm, t.bpm)

\* C22: in every iteration that appends, the appended track is an unused
\* track; when some unused track is within the BPM tolerance of the last
\* track, the appended one is within it and no unused track within it has a
\* higher combined score; when none is, the iteration does not raise and
\* appends an unused track whose energy is closest to the target.
C22_GuardrailThenBestScore ==
    /\ StepAppended =>
        /\ \E k \in 1..Len(StepCandidates) : StepPicked = StepCandidates[k]
        /\ (\E k \in 1..Len(StepCandidates) : WithinTolerance(StepCandidates[k])) =>
            /\ WithinTolerance(StepPicked)
            /\ \A k \in 1..Len(StepCandidates) :
                    WithinTolerance(StepCandidates[k]) =>
                        CandidateScore(StepCurrent, StepCandidates[k], StepTarget,
                                       pf.suggestion_config)
                            <= CandidateScore(StepCurrent, StepPicked, StepTarget,
                                              pf.suggestion_config)
        /\ (\A k \in 1..Len(StepCandidates) : ~WithinTolerance(StepCandidates[k])) =>
            \A k \in 1..Len(StepCandidates) :
                EnergyDiff(StepPicked, StepTarget)
                    <= EnergyDiff(StepCandidates[k], StepTarget)
    /\ (/\ pf.pc \in {"loop", "done"}
        /\ pf.before # <<>>
        /\ StepCandidates # <<>>
        /\ \A k \in 1..Len(StepCandidates) : ~WithinTolerance(StepCandidates[k])) =>
            pf.st.exc = "none" /\ StepAppended

\* an iteration with two candidates within the tolerance and one outside
\* it appended the second of the two, which is not the energy-closest
\* unused track
C22_Witness ==
    /\ StepAppended
    /\ \E i, k \in 1..Len(StepCandidates) :
        /\ i < k
        /\ WithinTolerance(StepCandidates[i])
        /\ StepPicked = StepCandidates[k]
    /\ \E k \in 1..Len(StepCandidates) : ~WithinTolerance(StepCandidates[k])
    /\ \E k \in 1..Len(StepCandidates) :
            EnergyDiff(StepCandidates[k], StepTarget) < EnergyDiff(StepPicked, StepTarget)

\* an iteration with no candidate within the tolerance appended a track
FallbackTaken ==
    /\ StepAppended
    /\ Len(StepCandidates) >= 2
    /\ \A k \in 1..Len(StepCandidates) : ~WithinTolerance(StepCandidates[k])


(***************************************************************************)
(* Properties of the scores of the suggestion engine                       *)
(***************************************************************************)

\* the pool track a result was computed for
CandidateOf(result) == CHOOSE t \in Range(pf.pool) : t.id = result.track_id

\* the last n tracks of the sequence, as a set
LastOfSequence(n) ==
    {pf.sequence[i] : i \in {k \in 1..Len(pf.sequence) : k > Len(pf.sequence) - n}}

KeyRepeats(candidate) == \E t \in LastOfSequence(2) : t.key = candidate.key

ClusterRepeats(candidate) ==
    /\ candidate.cluster_id # None
    /\ \E t \in LastOfSequence(3) : t.cluster_id = candidate.cluster_id

GrooveRepeats(candidate) ==
    /\ Len(pf.sequence) >= 4
    /\ \A t \in LastOfSequence(4) : t.groove_type = candidate.groove_type

\* the product of the factors 0.8, 0.85 and 0.9 whose condition holds, in
\* thousandths
ContextProduct(candidate) ==
    CASE KeyRepeats(candidate) /\ ClusterRepeats(candidate) /\ GrooveRepeats(candidate) -> 612
      [] KeyRepeats(candidate) /\ ClusterRepeats(candidate) /\ ~GrooveRepeats(candidate) -> 680
      [] KeyRepeats(candidate) /\ ~ClusterRepeats(candidate) /\ GrooveRepeats(candidate) -> 720
      [] ~KeyRepeats(candidate) /\ ClusterRepeats(candidate) /\ GrooveRepeats(candidate) -> 765
      [] KeyRepeats(candidate) /\ ~ClusterRepeats(candidate) /\ ~GrooveRepeats(candidate) -> 800
      [] ~KeyRepeats(candidate) /\ ClusterRepeats(candidate) /\ ~GrooveRepeats(candidate) -> 850
      [] ~KeyRepeats(candidate) /\ ~ClusterRepeats(candidate) /\ GrooveRepeats(candidate) -> 900
      [] OTHER -> 1000

\* final_score = base_compatibility * strategy_modifier * context_modifier
\* + diversity_bonus modulo m; the units are 10^-12, 10^-5, 10^-4, 10^-3
\* and 10^-3
FinalScoreIsFormulaMod(result, m) ==
    (((result.final_score.hi % m) * 1000) + result.final_score.lo) % m
        = ((((((result.base_compatibility % m) * (result.strategy_modifier % m)) % m)
                * (result.context_modifier % m)) % m)
           + (((result.diversity_bonus % m) * (1000000000 % m)) % m)) % m

\* C23: every result of suggest has final_score = base_compatibility x
\* strategy_modifier x context_modifier + diversity_bonus (the equation is
\* checked modulo three pairwise coprime numbers whose product exceeds every
\* score), and its context_modifier is the product of 0.8 when the
\* candidate's key is the key of one of the last 2 sequence tracks, 0.85
\* when its non-null cluster_id is that of one of the last 3, and 0.9 when
\* the sequence has 4 or more tracks and the last 4 all have its groove
\* type; 1.0 when none holds.
C23_FinalScoreAndContext ==
    (pf.pc = "suggest" /\ pf.result.exc = "none") =>
        \A k \in 1..Len(pf.result.value) :
            /\ pf.result.value[k].context_modifier
                    = ContextProduct(CandidateOf(pf.result.value[k]))
            /\ FinalScoreIsFormulaMod(pf.result.value[k], 32768)
            /\ FinalScoreIsFormulaMod(pf.result.value[k], 32767)
            /\ FinalScoreIsFormulaMod(pf.result.value[k], 32765)
            /\ pf.result.value[k].final_score.lo \in 0..999

\* one result has all three factors, under a strategy whose modifier is
\* not 1, another has one factor and a third none
C23_Witness ==
    /\ pf.pc = "suggest"
    /\ pf.result.exc = "none"
    /\ \E k \in 1..Len(pf.result.value) :
        /\ pf.result.value[k].context_modifier = 612
        /\ pf.result.value[k].strategy_modifier # 10000
    /\ \E k \in 1..Len(pf.result.value) : pf.result.value[k].context_modifier = 850
    /\ \E k \in 1..Len(pf.result.value) : pf.result.value[k].context_modifier = 1000

\* a result has a diversity bonus and a context factor
BonusAndFactor ==
    /\ pf.pc = "suggest"
    /\ pf.result.exc = "none"
    /\ \E k \in 1..Len(pf.result.value) :
        /\ pf.result.value[k].context_modifier = 800
        /\ pf.result.value[k].diversity_bonus > 0
        /\ pf.result.value[k].strategy_modifier > 10000


\* the candidate has a cluster, and none of the last 3 sequence tracks is in it
InUnseenCluster(candidate) ==
    /\ candidate.cluster_id # None
    /\ \A t \in LastOfSequence(3) : t.cluster_id # candidate.cluster_id

\* the bonus of the result is added to the product of the other three
BonusIsAdded(result) ==
    /\ result.final_score.hi
            = FinalScore(result.base_compatibility, result.strategy_modifier,
                         result.context_modifier, 0).hi
              + 1000000 * result.diversity_bonus
    /\ result.final_score.lo
            = FinalScore(result.base_compatibility, result.strategy_modifier,
                         result.context_modifier, 0).lo

\* C24 as stated: for a sequence of any length and a positive
\* config.diversity_bonus, a result's bonus is config.diversity_bonus when
\* the candidate's cluster_id is non-null and not among the cluster ids of
\* the last 3 sequence tracks, and 0 otherwise; the bonus is added.
C24_BonusForUnseenCluster ==
    (pf.pc = "suggest" /\ pf.result.exc = "none" /\ pf.config.diversity_bonus > 0) =>
        \A k \in 1..Len(pf.result.value) :
            /\ pf.result.value[k].diversity_bonus
                    = IF InUnseenCluster(CandidateOf(pf.result.value[k]))
                      THEN pf.config.diversity_bonus ELSE 0
            /\ BonusIsAdded(pf.result.value[k])

\* C24 amended: the same for a sequence that is not empty; for an empty
\* sequence the bonus of every result is 0.
C24_BonusForUnseenClusterAfterHistory ==
    (pf.pc = "suggest" /\ pf.result.exc = "none" /\ pf.config.diversity_bonus > 0) =>
        \A k \in 1..Len(pf.result.value) :
            /\ pf.result.value[k].diversity_bonus
                    = IF pf.sequence # <<>>
                         /\ InUnseenCluster(CandidateOf(pf.result.value[k]))
                      THEN pf.config.diversity_bonus ELSE 0
            /\ BonusIsAdded(pf.result.value[k])

\* after a sequence that is not empty, one result has the bonus, one has
\* none because its cluster was played and one has none for want of a
\* cluster
C24_Witness ==
    /\ pf.pc = "suggest"
    /\ pf.result.exc = "none"
    /\ pf.sequence # <<>>
    /\ pf.config.diversity_bonus > 0
    /\ \E k \in 1..Len(pf.result.value) :
            pf.result.value[k].diversity_bonus = pf.config.diversity_bonus
    /\ \E k \in 1..Len(pf.result.value) :
        /\ pf.result.value[k].diversity_bonus = 0
        /\ CandidateOf(pf.result.value[k]).cluster_id # None
    /\ \E k \in 1..Len(pf.result.value) :
        /\ pf.result.value[k].diversity_bonus = 0
        /\ CandidateOf(pf.result.value[k]).cluster_id = None


(***************************************************************************)
(* The energy_arc strategy over the positions of a set                     *)
(***************************************************************************)

\* bound on sequence_position; estimated_set_length is 20, as suggest
\* passes it
MaxPosition == 24

\* candidate energies: the ends of the range, and targets of the schedule
ArcEnergies == {0, 300, 700, 790, 1000}

ArcInit ==
    /\ nodes = <<>>
    /\ edges = {}
    /\ op = NoOp
    /\ ret = Returned(<<>>)
    /\ nops = 0
    /\ \E sequence_position \in 0..MaxPosition, energy \in ArcEnergies :
            pf = [pc |-> "start", candidate |-> [S1 EXCEPT !.energy = energy],
                  current |-> S2, sequence_position |-> sequence_position,
                  target_energy |-> 0, modifier |-> 0]

\* energy_arc_modifier(candidate, current, sequence_position=...,
\* estimated_set_length=20); target_energy is its local variable
EnergyArc ==
    /\ pf.pc = "start"
    /\ pf' = [pf EXCEPT !.pc = "energy_arc",
                        !.target_energy = TargetEnergy(SetProgress20(pf.sequence_position)),
                        !.modifier = energy_arc_modifier(pf.candidate, pf.current,
                                                         pf.sequence_position)]
    /\ UNCHANGED <<nodes, edges, op, ret, nops>>

ArcNext == EnergyArc

SpecArc == ArcInit /\ [][ArcNext]_vars


(***************************************************************************)
(* Properties of the energy_arc strategy                                   *)
(***************************************************************************)

\* twice the scheduled target in 1/10000 at progress k / 20: 0.5 rising to
\* 0.65 below 0.3, 0.7 rising to 0.91 from 0.3 to 0.7, then 0.9 falling to
\* 0.45 at 1
ScheduledTwice(k) ==
    IF k < 6 THEN 10000 + 500 * k
    ELSE IF k < 14 THEN 14000 + 525 * (k - 6)
    ELSE 18000 - 1500 * (k - 14)

\* C25: at progress p = min(1, sequence_position / 20) the target energy is
\* on the three-piece schedule, the modifier is
\* 0.5 + 0.5 * (1 - |candidate.energy - target|), and it lies in [0.5, 1.0].
C25_ThreePieceSchedule ==
    pf.pc = "energy_arc" =>
        /\ 2 * pf.target_energy
                = Max(0, Min(20000, ScheduledTwice(Min(20, pf.sequence_position))))
        /\ 2 * pf.modifier
                = 10000 + (10000 - Abs(10 * pf.candidate.energy - pf.target_energy))
        /\ pf.modifier >= 5000
        /\ pf.modifier <= 10000

\* the modifier is 0.5 + 0.5 * (1 - |candidate.energy - target|) for the
\* target the code computes, and lies in [0.5, 1.0]
ArcModifierInRange ==
    pf.pc = "energy_arc" =>
        /\ 2 * pf.modifier
                = 10000 + (10000 - Abs(10 * pf.candidate.energy - pf.target_energy))
        /\ pf.modifier >= 5000
        /\ pf.modifier <= 10000

\* the target agrees with the schedule outside 0.3 <= p < 0.7
ArcOutsidePeak ==
    (pf.pc = "energy_arc" /\ (pf.sequence_position < 6 \/ pf.sequence_position >= 14)) =>
        2 * pf.target_energy = ScheduledTwice(Min(20, pf.sequence_position))


(***************************************************************************)
(* Properties of the 2-opt sweeps                                          *)
(***************************************************************************)

\* two_opt_improve has returned for a list of 3 or more tracks after a full
\* sweep that accepted no reversal
StoppedWithoutImprovement ==
    /\ pf.pc = "two_opt_improve"
    /\ Len(pf.tracks) >= 3
    /\ ~two_opt_run(pf.tracks, pf.max_iterations, pf.config).improved

\* reversing positions i..j of the result does not raise the sum
NoGainFromReversal(i, j) ==
    total_compatibility(ReverseSegment(pf.result, i, j), pf.config)
        <= total_compatibility(pf.result, pf.config)

\* the number of sweeps is at most max_iterations
SweepsBounded ==
    pf.pc = "two_opt_improve" =>
        two_opt_run(pf.tracks, pf.max_iterations, pf.config).iteration
            <= pf.max_iterations

StoppedAtMaxIterations ==
    /\ pf.pc = "two_opt_improve"
    /\ pf.max_iterations > 0
    /\ two_opt_run(pf.tracks, pf.max_iterations, pf.config).improved


\* generate reaches its return statement or raises
RunsToEnd == <>(pf.pc = "done")

\* an iteration that found an unused track appended exactly one track,
\* which was unused, after the tracks already in the sequence
IterationAppendsOne ==
    (pf.pc \in {"loop", "done"} /\ pf.before # <<>> /\ StepCandidates # <<>>) =>
        /\ StepAppended
        /\ SubSeq(pf.st.sequence, 1, Len(pf.before.sequence)) = pf.before.sequence
        /\ StepPicked.id \notin pf.before.used_ids
        /\ \E k \in 1..Len(pf.all_tracks) : StepPicked = pf.all_tracks[k]

\* total_duration is the start track's duration plus, for each later track,
\* its duration minus the 8 seconds of crossfade
DurationAccumulated ==
    (pf.pc \in {"loop", "done"} /\ pf.all_tracks # <<>>) =>
        pf.st.total_duration
            = SumOf([k \in 1..Len(pf.st.sequence) |-> pf.st.sequence[k].duration_seconds])
              - 8 * (Len(pf.st.sequence) - 1)

\* when the loop has been left, the target duration is reached or every
\* track of the pool is in the sequence
StopsAtTargetOrExhausted ==
    (pf.pc = "done" /\ pf.all_tracks # <<>>) =>
        \/ pf.st.total_duration >= pf.config.target_minutes * 60
        \/ \A k \in 1..Len(pf.all_tracks) : pf.all_tracks[k].id \in pf.st.used_ids

\* C27: generate terminates; every loop iteration appends exactly one
\* previously unused track; the accumulated duration is the start track's
\* plus each later track's minus 8 seconds; and appending stops only when
\* that duration has reached target_minutes x 60 or every pool track has been
\* used.
C27_TerminatesAtTargetOrExhausted ==
    /\ RunsToEnd
    /\ [](IterationAppendsOne /\ DurationAccumulated /\ StopsAtTargetOrExhausted)

\* the weights of the scorer do not sum to zero
WeightsUsable ==
    pf.suggestion_config = NoConfig \/ WeightTotal(pf.suggestion_config) # 0

\* the same for the runs in which the scorer does not raise
TerminatesUnlessScorerRaises ==
    /\ RunsToEnd
    /\ [](WeightsUsable =>
            (IterationAppendsOne /\ DurationAccumulated /\ StopsAtTargetOrExhausted))

\* a run that appended two tracks and stopped at the target duration with
\* tracks left over
StoppedAtTarget ==
    /\ pf.pc = "done"
    /\ Len(pf.all_tracks) = 5
    /\ Len(pf.st.sequence) = 3
    /\ pf.st.total_duration >= pf.config.target_minutes * 60
    /\ Cardinality(pf.st.used_ids) < Cardinality(IdsOf(pf.all_tracks))


(***************************************************************************)
(* Properties of the nodes of the compatibility graph                      *)
(***************************************************************************)

\* some node was entered by add_edge and has no Track
BareNode == \E i \in 1..Len(nodes) : nodes[i].track = NoTrack

\* C28: after any sequence of add_node, remove_node, add_edge, compute_edges
\* and compute_edges_for_new_tracks calls, every node holds a Track, both
\* endpoints of every edge are nodes, get_all_nodes returns node_count
\* Tracks, and compute_edges does not fail.
C28_EveryNodeHoldsATrack ==
    /\ \A i \in 1..Len(nodes) : nodes[i].track # NoTrack
    /\ \A e \in edges : has_node(G, e.source_id) /\ has_node(G, e.target_id)
    /\ get_all_nodes(G).exc = "none"
    /\ Len(get_all_nodes(G).value) = node_count(G)
    /\ compute_edges(G, 0, NoConfig).ret.exc = "none"

\* the endpoints of every edge are nodes, and when every node holds a Track
\* get_all_nodes returns node_count Tracks
EdgesJoinNodes ==
    /\ \A e \in edges : has_node(G, e.source_id) /\ has_node(G, e.target_id)
    /\ ~BareNode =>
        /\ get_all_nodes(G).exc = "none"
        /\ Len(get_all_nodes(G).value) = node_count(G)

\* compute_edges_for_new_tracks has entered a node without a Track
BareNodeFromNewTracks ==
    /\ op.name = "compute_edges_for_new_tracks"
    /\ BareNode
    /\ nops = 2


(***************************************************************************)
(* Properties of the refinement of a generated set                         *)
(***************************************************************************)

\* generate has returned the Sequence Optimizer's order of a built sequence
\* of 4 or more tracks
RefinedByOptimizer ==
    /\ GenerateReturned
    /\ Len(pf.sequence) >= 4
    /\ ~OptimizerRaises

\* C29: when generate has refined a set of 4 or more tracks, the sum of
\* consecutive compatibility scores of the returned order is at least that
\* of the sequence the while loop had built.
C29_RefinementNeverWorse ==
    RefinedByOptimizer =>
        total_compatibility(pf.result.value, pf.suggestion_config)
            >= total_compatibility(pf.sequence, pf.suggestion_config)

\* the returned order is the optimizer's order of the built sequence, and
\* its sum is at least that of greedy_order from the same start track
RefinementAtLeastGreedyOrder ==
    RefinedByOptimizer =>
        /\ pf.result.value = optimal_order(pf.sequence, pf.sequence[1],
                                           pf.suggestion_config, MAX_2OPT_ITERATIONS)
        /\ total_compatibility(pf.result.value, pf.suggestion_config)
            >= total_compatibility(greedy_order(pf.sequence, pf.sequence[1],
                                                pf.suggestion_config),
                                   pf.suggestion_config)


(***************************************************************************)
(* Clustering as a full recompute                                          *)
(***************************************************************************)

\* the track at position i is listed in a returned Cluster whose id is the
\* track's cluster_id
ListedUnderItsId(i) ==
    \E c \in 1..Len(pf.clusters) :
        /\ pf.tracks[i].id \in Range(pf.clusters[c].track_ids)
        /\ pf.tracks[i].cluster_id = Some(pf.clusters[c].id)

\* C30: after any cluster_tracks call, also one that returns no Cluster
\* because fewer than min_samples tracks were given, every input track whose
\* cluster_id is not None is listed in a Cluster returned by that call with
\* that id: no cluster_id of an earlier run survives.
C30_NoStaleClusterIds ==
    pf.pc = "cluster_tracks" =>
        \A i \in 1..Len(pf.tracks) :
            pf.tracks[i].cluster_id # None => ListedUnderItsId(i)

\* with at least min_samples tracks every cluster_id is the one of this call
RecomputedWithEnoughTracks ==
    (pf.pc = "cluster_tracks" /\ Len(pf.tracks) >= pf.min_samples) =>
        \A i \in 1..Len(pf.tracks) :
            /\ pf.tracks[i].cluster_id # None => ListedUnderItsId(i)
            /\ pf.tracks[i].cluster_id =
                    IF pf.labels[i] >= 0 THEN Some(pf.labels[i]) ELSE None

\* a call with fewer than min_samples tracks returned no Cluster and left a
\* track with the cluster_id it had before
StaleClusterIdSurvives ==
    /\ pf.pc = "cluster_tracks"
    /\ Len(pf.tracks) < pf.min_samples
    /\ pf.clusters = <<>>
    /\ \E i \in 1..Len(pf.tracks) : pf.tracks[i].cluster_id = Some(0)


=============================================================================
